---------------------------- MODULE Spec2Model ----------------------------
(***************************************************************************)
(* A model of the nam-web-app authentication service: password hashing,    *)
(* the users and sessions tables of the D1 store, and the request handlers *)
(* (signup, login, logout, me, profile, OAuth callbacks) that act on them. *)
(*                                                                         *)
(* Strings whose characters matter (e-mail addresses, names, timestamps)   *)
(* are sequences of one-character strings; passwords are TLA+ strings, of  *)
(* which the code reads only the length and the identity.                  *)
(* The handlers read two D1 bindings (env.DB in signup, and                *)
(* env['nam-web-app-db'] elsewhere); both are bound to the one database.   *)
(***************************************************************************)
EXTENDS Integers, Sequences, FiniteSets, TLC

VARIABLES users, sessions, nextSid, now, inflight, last

vars == <<users, sessions, nextSid, now, inflight, last>>

(***************************************************************************)
(* Bounds of the model.                                                    *)
(***************************************************************************)
\* concurrent requests in flight
NumProcs == 2
\* session rows ever issued in one behaviour
MaxSessions == 2
\* user rows in the store
MaxUsers == 4
\* clock ticks per calendar day
TicksPerDay == 2
\* sessions are issued during the first ticks 0..MaxLoginTime of a behaviour
MaxLoginTime == 1
\* ticks the clock runs beyond the short session lifetime
ExtraTicks == 3
\* users are updated during the ticks 0..MaxUpdateTime of a behaviour
MaxUpdateTime == 2
\* the state tokens the begin endpoints generate in a behaviour
MaxStateTokens == 3

(***************************************************************************)
(* Program constants.                                                      *)
(***************************************************************************)
\* login: keepLogin ? 30 : 7
DaysShort == 7
DaysLong == 30
\* the OAuth callbacks always issue 30-day sessions
DaysOAuth == 30
SecondsPerDay == 24 * 60 * 60
\* validatePassword
MinPasswordLen == 8
MaxPasswordLen == 128
\* minimum trimmed name length
MinNameLen == 2

Procs == 1..NumProcs
MaxNow == DaysShort * TicksPerDay + ExtraTicks

(***************************************************************************)
(* Character strings.                                                      *)
(***************************************************************************)
IsSpace(c) == c = " "

\* String.prototype.trim
RECURSIVE TrimLeft(_)
TrimLeft(s) ==
    IF s # <<>> /\ IsSpace(Head(s)) THEN TrimLeft(Tail(s)) ELSE s

RECURSIVE TrimRight(_)
TrimRight(s) ==
    IF s # <<>> /\ IsSpace(s[Len(s)]) THEN TrimRight(SubSeq(s, 1, Len(s) - 1)) ELSE s

Trim(s) == TrimRight(TrimLeft(s))

\* String.prototype.toLowerCase, on the characters the model uses
LowerChar(c) ==
    CASE c = "A" -> "a"
      [] c = "B" -> "b"
      [] c = "C" -> "c"
      [] c = "E" -> "e"
      [] c = "M" -> "m"
      [] c = "O" -> "o"
      [] OTHER -> c

ToLowerCase(s) == [i \in 1..Len(s) |-> LowerChar(s[i])]

\* email.trim().toLowerCase()
\* a normalization that keeps the case
NormalizeEmailKeepsCase(email) == Trim(email)

NormalizeEmail(email) == ToLowerCase(Trim(email))

\* [^\s@]
NotSpaceNotAt(c) == ~IsSpace(c) /\ c # "@"

AllNotSpaceNotAt(s, from, to) == \A k \in from..to : NotSpaceNotAt(s[k])

\* /^[^\s@]+@[^\s@]+\.[^\s@]+$/.test(email)
validateEmail(email) ==
    \E i, j \in 1..Len(email) :
        /\ 1 < i /\ i + 1 < j /\ j < Len(email)
        /\ email[i] = "@"
        /\ email[j] = "."
        /\ AllNotSpaceNotAt(email, 1, i - 1)
        /\ AllNotSpaceNotAt(email, i + 1, j - 1)
        /\ AllNotSpaceNotAt(email, j + 1, Len(email))

\* validatePassword(password).valid
validatePassword(password) ==
    /\ ~(Len(password) < MinPasswordLen)
    /\ ~(Len(password) > MaxPasswordLen)

(***************************************************************************)
(* Timestamps.  An instant is a number of ticks; the store holds           *)
(* timestamps as text.  A timestamp text is modelled by the triple         *)
(* <<date, separator, time of day>>: the date part "YYYY-MM-DD" orders as  *)
(* the day number does, the separator is the code of the 11th character    *)
(* ("T" in Date.toISOString, " " in SQLite's datetime), and the time of    *)
(* day is the tick within the day.  SQLite compares the two texts byte by  *)
(* byte.                                                                   *)
(***************************************************************************)
CharT == 84
CharSpace == 32

\* Date.prototype.toISOString
toISOString(t) == <<t \div TicksPerDay, CharT, t % TicksPerDay>>

\* SQLite datetime("now") and CURRENT_TIMESTAMP
datetime(t) == <<t \div TicksPerDay, CharSpace, t % TicksPerDay>>

\* the instant a timestamp text denotes
InstantOf(ts) == ts[1] * TicksPerDay + ts[3]

\* SQLite's comparison a > b of two TEXT values (BINARY collation)
RECURSIVE TextGreater(_, _)
TextGreater(a, b) ==
    IF a = <<>> THEN FALSE
    ELSE IF b = <<>> THEN TRUE
    ELSE IF Head(a) # Head(b) THEN Head(a) > Head(b)
    ELSE TextGreater(Tail(a), Tail(b))

\* expiresAt.setDate(expiresAt.getDate() + expiresInDays)
AddDays(t, days) == t + days * TicksPerDay

(***************************************************************************)
(* Password hashing (validation.js).  A byte array is a sequence of numbers *)
(* 0..255 and a hex string a sequence of characters.  PBKDF2 is an ideal   *)
(* function of its salt and key material, and its hex rendering stands for *)
(* itself.  An encoded hash "saltHex:hashHex" is the sequence of its       *)
(* ':'-separated fields (the empty string is the one empty field), and an  *)
(* absent hash (NULL) is <<>>.  Salts are one byte long.                   *)
(***************************************************************************)
Salts == {<<10>>, <<255>>}

NoHash == <<>>

HexDigits == <<"0", "1", "2", "3", "4", "5", "6", "7", "8", "9",
               "a", "b", "c", "d", "e", "f">>

\* b.toString(16).padStart(2, '0')
ByteToHex(b) == <<HexDigits[(b \div 16) + 1], HexDigits[(b % 16) + 1]>>

\* bytes.map(b => b.toString(16).padStart(2, '0')).join('')
RECURSIVE ToHex(_)
ToHex(bytes) ==
    IF bytes = <<>> THEN <<>> ELSE ByteToHex(Head(bytes)) \o ToHex(Tail(bytes))

\* the value of a hex digit, -1 for any other character
HexValue(c) ==
    IF \E k \in 1..16 : HexDigits[k] = c
    THEN (CHOOSE k \in 1..16 : HexDigits[k] = c) - 1
    ELSE IF c \in {"A", "B", "C", "D", "E", "F"}
         THEN CASE c = "A" -> 10 [] c = "B" -> 11 [] c = "C" -> 12
                [] c = "D" -> 13 [] c = "E" -> 14 [] c = "F" -> 15
         ELSE -1

\* parseInt(chunk, 16) of a chunk of one or two characters, stored into a
\* Uint8Array: the longest hex prefix, and 0 for NaN
ParseHexByte(chunk) ==
    IF HexValue(chunk[1]) < 0 THEN 0
    ELSE IF Len(chunk) = 1 \/ HexValue(chunk[2]) < 0 THEN HexValue(chunk[1])
    ELSE HexValue(chunk[1]) * 16 + HexValue(chunk[2])

\* saltHex.match(/.{1,2}/g).map(byte => parseInt(byte, 16)), on a string
\* that is not empty
RECURSIVE ParseHex(_)
ParseHex(hex) ==
    IF hex = <<>> THEN <<>>
    ELSE IF Len(hex) = 1 THEN <<ParseHexByte(hex)>>
    ELSE <<ParseHexByte(SubSeq(hex, 1, 2))>> \o ParseHex(SubSeq(hex, 3, Len(hex)))

\* passwords that end in a lone surrogate: <D800> and <D801> each stand for
\* one UTF-16 code unit
PasswordD800 == "abcdefg<D800>"
PasswordD801 == "abcdefg<D801>"

\* new TextEncoder().encode(password): UTF-8, a lone surrogate encoded as
\* U+FFFD
TextEncode(password) ==
    IF password \in {PasswordD800, PasswordD801} THEN "abcdefg<FFFD>" ELSE password

\* crypto.subtle.deriveBits({name: 'PBKDF2', salt, ...}, importKey(combined))
PBKDF2(salt, combined) == <<"pbkdf2", salt, combined>>

\* combined = salt followed by the password's bytes
Combined(salt, password) == <<salt, TextEncode(password)>>

\* hashPassword(password), with the salt crypto.getRandomValues drew
hashPassword(password, salt) ==
    <<ToHex(salt), PBKDF2(salt, Combined(salt, password))>>

\* verifyPassword(password, hash): "true", "false", or the TypeError thrown
\* by null.map when saltHex matches nothing
verifyPasswordResult(password, hash) ==
    LET saltHex == hash[1]
        hashHex == IF Len(hash) >= 2 THEN hash[2] ELSE <<"undefined">>
    IN  IF saltHex = <<>> THEN "TypeError"
        ELSE LET salt == ParseHex(saltHex)
                 computedHash == PBKDF2(salt, Combined(salt, password))
             IN  IF computedHash = hashHex THEN "true" ELSE "false"

\* await verifyPassword(password, hash), on a hash hashPassword encoded
verifyPassword(password, hash) == verifyPasswordResult(password, hash) = "true"

(***************************************************************************)
(* The users table (schema.sql).  users is the sequence of rows in id      *)
(* order: ids are AUTOINCREMENT and rows are never deleted, so a row's id  *)
(* is its index.  NULL timestamps and NULL provider ids are <<>>.          *)
(***************************************************************************)
NULL == [null |-> TRUE]

NullText == <<>>

UserRow(email, hash, name, provider, providerId, emailVerified, t) ==
    [email |-> email, password_hash |-> hash, name |-> name,
     provider |-> provider, provider_id |-> providerId,
     email_verified |-> emailVerified, status |-> "active",
     created_at |-> datetime(t), updated_at |-> datetime(t),
     last_login_at |-> NullText]

\* a users table whose email column carries no UNIQUE constraint
EmailNeverTaken(U, email) == FALSE

\* the UNIQUE constraint on users.email
EmailTaken(U, email) == \E i \in DOMAIN U : U[i].email = email

\* SELECT ... FROM users WHERE email = ? LIMIT 1: the row's id, 0 when no row
SelectIdByEmail(U, email) ==
    IF EmailTaken(U, email)
    THEN CHOOSE i \in DOMAIN U : U[i].email = email /\ \A k \in DOMAIN U : U[k].email = email => i <= k
    ELSE 0

\* checkEmailExists(db, email)
checkEmailExists(U, email) == SelectIdByEmail(U, NormalizeEmail(email)) # 0

\* createUser(db, {name, email, passwordHash, marketingAgree}): the INSERT's
\* outcome is "ok" with the new table, or "unique" when the e-mail is taken
createUser(U, name, email, passwordHash, t) ==
    LET normalizedEmail == NormalizeEmail(email)
    IN  IF EmailTaken(U, normalizedEmail)
        THEN [outcome |-> "unique", users |-> U, id |-> 0]
        ELSE [outcome |-> "ok",
              users |-> Append(U, UserRow(normalizedEmail, passwordHash, Trim(name),
                                          "email", NullText, FALSE, t)),
              id |-> Len(U) + 1]

\* getUserByEmail(db, email): the id of the row, 0 for null
getUserByEmail(U, email) == SelectIdByEmail(U, NormalizeEmail(email))

\* updateLastLogin(db, userId); dbOk is whether the store executed the UPDATE
updateLastLogin(U, userId, t, dbOk) ==
    IF dbOk /\ userId \in DOMAIN U
    THEN [U EXCEPT ![userId].last_login_at = datetime(t)]
    ELSE U

\* an updateLastLogin that rethrows the error of the store
updateLastLoginRethrows(dbOk) == ~dbOk

\* whether updateLastLogin throws: its catch logs the error of a failed
\* UPDATE and does not rethrow
updateLastLoginThrows(dbOk) == FALSE

\* a field the caller did not supply (JavaScript's undefined)
Undefined == <<"undefined">>

\* an UPDATE of users without its WHERE id = ?
updateUserEveryRow(U, userId, userData, t, dbOk) ==
    [outcome |-> "ok",
     users |-> [i \in DOMAIN U |-> [U[i] EXCEPT !.updated_at = datetime(t)]]]

\* updateUser(db, userId, userData): it reads userData.name only; "error" is
\* the error it throws, for want of a field to update or as the store fails;
\* an UPDATE whose WHERE id = ? meets no row changes nothing
updateUser(U, userId, userData, t, dbOk) ==
    LET name == userData.name
        updates == IF name # Undefined THEN {"name"} ELSE {}
    IN  IF updates = {} THEN [outcome |-> "error", users |-> U]
        ELSE IF ~dbOk THEN [outcome |-> "error", users |-> U]
        ELSE IF userId \notin DOMAIN U THEN [outcome |-> "ok", users |-> U]
        ELSE [outcome |-> "ok",
              users |-> [U EXCEPT ![userId].name = Trim(name),
                                  ![userId].updated_at = datetime(t)]]

(***************************************************************************)
(* The sessions table and session.js.  A session id is a fresh UUID,       *)
(* modelled by the next unused number; 0 is the absent (null) id.          *)
(***************************************************************************)
SessionIds(S) == {r.id : r \in S}

\* a createSession that renews the user's other sessions: it moves their
\* expires_at to the expiry of the row it inserts
createSessionRenewing(S, sid, userId, expiresInDays, t) ==
    {IF r.user_id = userId
     THEN [r EXCEPT !.expires_at = toISOString(AddDays(t, expiresInDays))]
     ELSE r : r \in S}
    \cup {[id |-> sid, user_id |-> userId,
            expires_at |-> toISOString(AddDays(t, expiresInDays)),
            created_at |-> datetime(t)]}

\* createSession(db, userId, expiresInDays): the row it inserts
createSession(S, sid, userId, expiresInDays, t) ==
    S \cup {[id |-> sid, user_id |-> userId,
             expires_at |-> toISOString(AddDays(t, expiresInDays)),
             created_at |-> datetime(t)]}

\* SELECT * FROM sessions WHERE id = ? AND expires_at > datetime("now")
SelectLiveSession(S, sessionId, t) ==
    {r \in S : r.id = sessionId /\ TextGreater(r.expires_at, datetime(t))}

\* SELECT <columns> FROM users WHERE id = ?, on a row that exists
SelectColumns(U, id, columns) ==
    [c \in columns |-> IF c = "id" THEN id ELSE U[id][c]]

\* the columns of the users table
UserColumns ==
    {"id", "email", "password_hash", "name", "provider", "provider_id",
     "email_verified", "status", "created_at", "updated_at", "last_login_at"}

\* a query that reads the user with SELECT *
SelectAllColumns(U, id) == SelectColumns(U, id, UserColumns)

\* the columns verifySession selects from users
PublicUser(U, id) ==
    SelectColumns(U, id, {"id", "email", "name", "provider", "email_verified", "status"})

\* getUserById(db, userId): the row's public columns, NULL when there is no
\* row
getUserById(U, userId) ==
    IF userId \in DOMAIN U
    THEN SelectColumns(U, userId, {"id", "email", "name", "provider", "email_verified",
                                   "status", "created_at", "last_login_at"})
    ELSE NULL

\* verifySession(db, sessionId); dbOk is whether the store answered its queries
verifySession(U, S, sessionId, t, dbOk) ==
    IF sessionId = 0 THEN NULL
    ELSE IF ~dbOk THEN NULL
    ELSE LET found == SelectLiveSession(S, sessionId, t)
         IN  IF found = {} THEN NULL
             ELSE LET session == CHOOSE r \in found : TRUE
                  IN  IF session.user_id \notin DOMAIN U THEN NULL
                      ELSE IF U[session.user_id].status # "active" THEN NULL
                      ELSE PublicUser(U, session.user_id)

\* a verifySession that renews the session it finds alive
verifySessionSliding(U, S, sessionId, t, dbOk) ==
    [users |-> U,
     sessions |-> {IF r \in SelectLiveSession(S, sessionId, t)
                   THEN [r EXCEPT !.expires_at = toISOString(AddDays(t, DaysShort))]
                   ELSE r : r \in S}]

\* the tables after verifySession(db, sessionId): its two statements are
\* SELECTs, and its catch issues none
verifySessionEffect(U, S, sessionId, t, dbOk) == [users |-> U, sessions |-> S]

\* a deleteSession whose DELETE names no row
deleteSessionNoRow(S, sessionId, dbOk) == S

\* a deleteSession that removes every session of the session's user
deleteSessionOfUser(S, sessionId, dbOk) ==
    IF dbOk
    THEN {r \in S : \A q \in S : q.id = sessionId => r.user_id # q.user_id}
    ELSE S

\* deleteSession(db, sessionId): a failed DELETE is logged and swallowed
deleteSession(S, sessionId, dbOk) ==
    IF dbOk THEN {r \in S : r.id # sessionId} ELSE S

\* what the store does with one statement: it executes it and answers, it
\* fails without executing it, or it executes it and the answer is lost
StoreOutcomes == {"executed", "failed", "lost"}

\* a deleteAllUserSessions that logs and swallows the error, as deleteSession
\* does
deleteAllUserSessionsSwallow(S, userId, store) ==
    [outcome |-> "ok",
     sessions |-> IF store = "failed" THEN S ELSE {r \in S : r.user_id # userId}]

\* deleteAllUserSessions(db, userId): one DELETE ... WHERE user_id = ?; an
\* error of the store is logged and rethrown
deleteAllUserSessions(S, userId, store) ==
    [outcome |-> IF store = "executed" THEN "ok" ELSE "error",
     sessions |-> IF store = "failed" THEN S ELSE {r \in S : r.user_id # userId}]

(***************************************************************************)
(* Responses.  A response is its status, the fields of its JSON body that  *)
(* vary, and its Set-Cookie headers.                                       *)
(***************************************************************************)
NoCookies == <<>>

\* session=<id>; HttpOnly; Secure; SameSite=Lax; Path=/; Max-Age=<n>
SessionCookie(sessionId, maxAge) ==
    [name |-> "session", value |-> sessionId, HttpOnly |-> TRUE, Secure |-> TRUE,
     SameSite |-> "Lax", Path |-> "/", MaxAge |-> maxAge]

\* Response.json({success, error | message, ...}, {status})
Json(status, flags) ==
    [status |-> status, success |-> status \in {200, 201},
     isSocialLogin |-> "isSocialLogin" \in flags,
     suggestSignup |-> "suggestSignup" \in flags,
     provider |-> "", user |-> NULL, cookies |-> NoCookies]

(***************************************************************************)
(* POST /api/auth/login.  fail is the store call that fails in this        *)
(* request: 0 none, 1 getUserByEmail, 2 createSession, 3 updateLastLogin.  *)
(* The result is the tables after the request, whether a session row was   *)
(* inserted, and the response.                                             *)
(***************************************************************************)
\* a social account answered as a wrong password would be
SocialLoginAnswered401(provider) == Json(401, {})

\* the 403 of an account without password_hash: isSocialLogin and provider
SocialLoginResponse(provider) ==
    [Json(403, {"isSocialLogin"}) EXCEPT !.provider = provider]

\* a Max-Age that ignores keepLogin
LoginCookieMaxAgeShort(expiresInDays) == DaysShort * SecondsPerDay

\* Max-Age=${expiresInDays * 24 * 60 * 60}
LoginCookieMaxAge(expiresInDays) == expiresInDays * SecondsPerDay

\* a login that does not look at the account's status
StatusAllowsLoginAny(status) == TRUE

\* !(user.status !== 'active')
StatusAllowsLogin(status) == status = "active"

LoginOnRequestPost(U, S, sid, t, body, fail) ==
    LET email == body.email
        password == body.password
        keepLogin == body.keepLogin
        same(resp) == [users |-> U, sessions |-> S, created |-> FALSE, resp |-> resp]
    IN  IF email = <<>> \/ password = "" THEN same(Json(400, {}))
        ELSE IF fail = 1 THEN same(Json(500, {}))
        ELSE LET id == getUserByEmail(U, email)
        IN  IF id = 0 THEN same(Json(401, {"suggestSignup"}))
            ELSE IF U[id].password_hash = NoHash
                 THEN same(SocialLoginResponse(U[id].provider))
            ELSE IF ~StatusAllowsLogin(U[id].status) THEN same(Json(403, {}))
            ELSE IF ~verifyPassword(password, U[id].password_hash) THEN same(Json(401, {}))
            ELSE LET expiresInDays == IF keepLogin THEN DaysLong ELSE DaysShort
                 IN  IF fail = 2 THEN same(Json(500, {}))
                     ELSE IF updateLastLoginThrows(fail # 3)
                     THEN [users |-> U,
                           sessions |-> createSession(S, sid, id, expiresInDays, t),
                           created |-> TRUE, resp |-> Json(500, {})]
                     ELSE [users |-> updateLastLogin(U, id, t, fail # 3),
                           sessions |-> createSession(S, sid, id, expiresInDays, t),
                           created |-> TRUE,
                           resp |-> [Json(200, {}) EXCEPT
                                       !.user = [id |-> id, email |-> U[id].email,
                                                 name |-> U[id].name],
                                       !.cookies = <<SessionCookie(sid,
                                                       LoginCookieMaxAge(expiresInDays))>>]]

(***************************************************************************)
(* POST /api/auth/logout.  sessionId is the session cookie's value, 0 when *)
(* the request carries none; dbOk is whether the store executed the DELETE.*)
(***************************************************************************)
\* a logout that refuses a request without a session cookie
LogoutOnRequestPostNeedsCookie(S, sessionId, dbOk) ==
    IF sessionId = 0 THEN [sessions |-> S, resp |-> Json(401, {})]
    ELSE [sessions |-> deleteSession(S, sessionId, dbOk),
          resp |-> [Json(200, {}) EXCEPT !.cookies = <<SessionCookie(0, 0)>>]]

LogoutOnRequestPost(S, sessionId, dbOk) ==
    [sessions |-> IF sessionId # 0 THEN deleteSession(S, sessionId, dbOk) ELSE S,
     resp |-> [Json(200, {}) EXCEPT !.cookies = <<SessionCookie(0, 0)>>]]

(***************************************************************************)
(* GET /api/auth/me.                                                       *)
(***************************************************************************)
MeOnRequestGet(U, S, sessionId, t, dbOk) ==
    IF sessionId = 0 THEN Json(401, {})
    ELSE LET user == verifySession(U, S, sessionId, t, dbOk)
         IN  IF user = NULL THEN Json(401, {})
             ELSE [Json(200, {}) EXCEPT
                     !.user = [id |-> user.id, email |-> user.email, name |-> user.name,
                               provider |-> user.provider,
                               email_verified |-> user.email_verified]]

(***************************************************************************)
(* PUT /api/auth/profile (the handler that also changes the password).     *)
(* fail is the store call that fails: 0 none, 1 the first verifySession,   *)
(* 2 the SELECT of password_hash, 3 updateUser.  The handler awaits the    *)
(* store again after updateUser, to re-read the user for the response.     *)
(***************************************************************************)
\* steps 1 to 8, up to the end of updateUser: the response, or pending when
\* the handler goes on to re-verify the session
ProfileOnRequestPutUpdate(U, S, sessionId, t, body, salt, fail) ==
    LET done(uid, resp) == [pending |-> FALSE, users |-> U, uid |-> uid, resp |-> resp]
        user == verifySession(U, S, sessionId, t, fail # 1)
    IN  IF sessionId = 0 THEN done(0, Json(401, {}))
        ELSE IF user = NULL THEN done(0, Json(401, {}))
        ELSE IF fail = 2 THEN done(user.id, Json(500, {}))
        ELSE LET fullUser == U[user.id]
                 name == body.name
                 newPassword == body.newPassword
             IN  IF name # Undefined /\ (name = <<>> \/ Len(Trim(name)) < MinNameLen)
                 THEN done(user.id, Json(400, {}))
                 ELSE IF newPassword # "" /\ newPassword # body.newPasswordConfirm
                 THEN done(user.id, Json(400, {}))
                 ELSE IF newPassword # "" /\ ~validatePassword(newPassword)
                 THEN done(user.id, Json(400, {}))
                 ELSE IF newPassword # "" /\ fullUser.password_hash # NoHash
                         /\ body.currentPassword = ""
                 THEN done(user.id, Json(400, {}))
                 ELSE IF newPassword # "" /\ fullUser.password_hash # NoHash
                         /\ ~verifyPassword(body.currentPassword, fullUser.password_hash)
                 THEN done(user.id, Json(400, {}))
                 ELSE LET passwordHash == IF newPassword # ""
                                          THEN hashPassword(newPassword, salt)
                                          ELSE Undefined
                          updateData == [name |-> name, passwordHash |-> passwordHash]
                          u == updateUser(U, user.id, updateData, t, fail # 3)
                      IN  IF name = Undefined /\ passwordHash = Undefined
                          THEN [pending |-> TRUE, users |-> U, uid |-> user.id, resp |-> NULL]
                          ELSE IF u.outcome = "error" THEN done(user.id, Json(500, {}))
                          ELSE [pending |-> TRUE, users |-> u.users, uid |-> user.id,
                                resp |-> NULL]

\* steps 8 and 9: the second verifySession and the response; reading a field
\* of a null updatedUser throws, and the handler's catch answers 500
ProfileOnRequestPutRespond(U, S, sessionId, t, dbOk) ==
    LET updatedUser == verifySession(U, S, sessionId, t, dbOk)
    IN  IF updatedUser = NULL THEN Json(500, {})
        ELSE [Json(200, {}) EXCEPT
                !.user = [id |-> updatedUser.id, email |-> updatedUser.email,
                          name |-> updatedUser.name, provider |-> updatedUser.provider,
                          email_verified |-> updatedUser.email_verified]]

(***************************************************************************)
(* POST /api/auth/signup.  The handler awaits the store twice: the         *)
(* existence check, then the INSERT; other requests run in between.        *)
(***************************************************************************)
\* steps 2 to 7: the status of the validation error, 0 when the body passes
SignupValidation(body) ==
    IF body.name = <<>> \/ body.email = <<>> \/ body.password = ""
          \/ body.passwordConfirm = "" THEN 400
    ELSE IF ~body.agreeTerms THEN 400
    ELSE IF Len(Trim(body.name)) < MinNameLen THEN 400
    ELSE IF ~validateEmail(body.email) THEN 400
    ELSE IF ~validatePassword(body.password) THEN 400
    ELSE IF body.password # body.passwordConfirm THEN 400
    ELSE 0

\* a signup that asks the store for the address before it validates the body
SignupOnRequestPostCheckStoreFirst(U, body, dbOk) ==
    IF ~dbOk THEN [pending |-> FALSE, dup |-> FALSE, resp |-> Json(500, {})]
    ELSE IF body.email # <<>> /\ checkEmailExists(U, body.email)
         THEN [pending |-> FALSE, dup |-> TRUE, resp |-> Json(409, {})]
    ELSE IF SignupValidation(body) # 0
    THEN [pending |-> FALSE, dup |-> FALSE, resp |-> Json(SignupValidation(body), {})]
    ELSE [pending |-> TRUE, dup |-> FALSE, resp |-> NULL]

\* steps 1 to 8, up to the answer of checkEmailExists: the response, or
\* pending when the handler goes on to create the user
SignupOnRequestPostCheck(U, body, dbOk) ==
    IF SignupValidation(body) # 0
    THEN [pending |-> FALSE, dup |-> FALSE, resp |-> Json(SignupValidation(body), {})]
    ELSE IF ~dbOk THEN [pending |-> FALSE, dup |-> FALSE, resp |-> Json(500, {})]
    ELSE IF checkEmailExists(U, body.email)
         THEN [pending |-> FALSE, dup |-> TRUE, resp |-> Json(409, {})]
    ELSE [pending |-> TRUE, dup |-> FALSE, resp |-> NULL]

\* steps 9 to 12: hashPassword, createUser and the response; an error
\* createUser throws (the store's failure, or its duplicate-email error) is
\* caught by the handler's catch
SignupOnRequestPostCreate(U, body, salt, t, dbOk) ==
    LET passwordHash == hashPassword(body.password, salt)
        c == createUser(U, Trim(body.name), NormalizeEmail(body.email), passwordHash, t)
    IN  IF ~dbOk THEN [users |-> U, dup |-> FALSE, resp |-> Json(500, {})]
        ELSE IF c.outcome = "unique" THEN [users |-> U, dup |-> TRUE, resp |-> Json(500, {})]
        ELSE [users |-> c.users, dup |-> FALSE,
              resp |-> [Json(201, {}) EXCEPT !.user = [id |-> c.id]]]

(***************************************************************************)
(* Inputs.                                                                 *)
(***************************************************************************)
EmailA == <<"a", "@", "e", "x", ".", "c", "o", "m">>
EmailB == <<"b", "@", "e", "x", ".", "c", "o", "m">>
EmailK == <<"k", "@", "e", "x", ".", "c", "o", "m">>
\* the address of the specification's signup scenario: "A@Ex.COM "
EmailRaw == <<"A", "@", "E", "x", ".", "C", "O", "M", " ">>
\* the same address without the trailing blank
EmailMixed == <<"A", "@", "E", "x", ".", "C", "O", "M">>
NameAnn == <<"A", "n", "n">>
NameKim == <<"K", "i", "m">>
PasswordA == "longenough1"
PasswordB == "otherpass99"

\* a row a first social login leaves: no password, provider identity set,
\* e-mail verified, status active
SocialUserRow(provider, providerId, email, name, t) ==
    UserRow(NormalizeEmail(email), NoHash, name, provider, providerId, TRUE, t)

\* the store the session behaviours start from: one account signed up with
\* a password, one created by a Kakao login
SeedUsers ==
    Append(createUser(<<>>, NameAnn, EmailA, hashPassword(PasswordA, <<10>>), 0).users,
           SocialUserRow("kakao", <<"k", "1">>, EmailK, NameKim, 0))

Idle == [op |-> "idle"]

\* every login body
LoginBodies ==
    [email : {EmailA, EmailK, EmailB, <<>>},
     password : {PasswordA, PasswordB, ""},
     keepLogin : BOOLEAN]

\* the login bodies of the session behaviours: the right password with and
\* without keepLogin, and a wrong one
SessionLoginBodies ==
    [email : {EmailA}, password : {PasswordA}, keepLogin : BOOLEAN]
        \cup [email : {EmailA}, password : {PasswordB}, keepLogin : {FALSE}]

(***************************************************************************)
(* Actions.  last is the request the last step answered and its response.  *)
(***************************************************************************)
Login(body, fail) ==
    /\ nextSid <= MaxSessions
    /\ now <= MaxLoginTime
    /\ \E r \in {LoginOnRequestPost(users, sessions, nextSid, now, body, fail)} :
           /\ users' = r.users
           /\ sessions' = r.sessions
           /\ nextSid' = IF r.created THEN nextSid + 1 ELSE nextSid
           /\ last' = [op |-> "login", req |-> body, fail |-> fail, resp |-> r.resp]
    /\ UNCHANGED <<now, inflight>>

Logout(sessionId, dbOk) ==
    /\ \E r \in {LogoutOnRequestPost(sessions, sessionId, dbOk)} :
           /\ sessions' = r.sessions
           /\ last' = [op |-> "logout", sid |-> sessionId, dbOk |-> dbOk, resp |-> r.resp]
    /\ UNCHANGED <<users, nextSid, now, inflight>>

Me(sessionId, dbOk) ==
    /\ last' = [op |-> "me", sid |-> sessionId, dbOk |-> dbOk,
                resp |-> MeOnRequestGet(users, sessions, sessionId, now, dbOk)]
    /\ UNCHANGED <<users, sessions, nextSid, now, inflight>>

\* the clock advances
Tick ==
    /\ now < MaxNow
    /\ now' = now + 1
    /\ last' = [op |-> "tick"]
    /\ UNCHANGED <<users, sessions, nextSid, inflight>>

\* an operator outside this core changes an account's status (users.status)
SetStatus(id, status) ==
    /\ id \in DOMAIN users
    /\ users[id].status # status
    /\ users' = [users EXCEPT ![id].status = status]
    /\ last' = [op |-> "status"]
    /\ UNCHANGED <<sessions, nextSid, now, inflight>>

Statuses == {"active", "suspended"}

Init ==
    /\ users = SeedUsers
    /\ sessions = {}
    /\ nextSid = 1
    /\ now = 0
    /\ inflight = [p \in Procs |-> Idle]
    /\ last = [op |-> "init"]

(***************************************************************************)
(* Spec: the session lifecycle (login, logout, me, the clock, status).     *)
(***************************************************************************)
Next ==
    \/ \E body \in SessionLoginBodies : Login(body, 0)
    \/ \E sid \in 0..MaxSessions, dbOk \in BOOLEAN : Logout(sid, dbOk)
    \/ \E sid \in 0..MaxSessions, dbOk \in BOOLEAN : Me(sid, dbOk)
    \/ Tick
    \/ \E status \in Statuses : SetStatus(1, status)

Spec == Init /\ [][Next]_vars

(***************************************************************************)
(* SpecLogin: every login request, with every store failure.               *)
(***************************************************************************)
NextLogin ==
    \/ \E body \in LoginBodies, fail \in 0..3 : Login(body, fail)
    \/ \E id \in 1..MaxUsers, status \in Statuses : SetStatus(id, status)
    \/ now < MaxLoginTime /\ Tick

SpecLogin == Init /\ [][NextLogin]_vars

(***************************************************************************)
(* SpecSignup: concurrent signups, and logins, on a store that starts      *)
(* empty.                                                                  *)
(***************************************************************************)
SignupBody(email) ==
    [name |-> NameAnn, email |-> email, password |-> PasswordA,
     passwordConfirm |-> PasswordA, agreeTerms |-> TRUE]

\* bodies that differ from a valid one in the address only
AddressBodies == {SignupBody(e) : e \in {EmailA, EmailMixed, EmailRaw, EmailB}}

\* bodies with one invalid field
InvalidBodies ==
    {[SignupBody(EmailA) EXCEPT !.name = <<>>],
     [SignupBody(EmailA) EXCEPT !.name = <<" ", "A", " ">>],
     [SignupBody(EmailA) EXCEPT !.agreeTerms = FALSE],
     [SignupBody(EmailA) EXCEPT !.email = <<"a", "e", "x">>],
     [SignupBody(EmailA) EXCEPT !.password = "short", !.passwordConfirm = "short"],
     [SignupBody(EmailA) EXCEPT !.passwordConfirm = PasswordB]}

SignupBodies == AddressBodies \cup InvalidBodies

\* a request arrives at process p and runs up to the answer of the check
SignupBegin(p, body, dbOk) ==
    /\ inflight[p] = Idle
    /\ \E r \in {SignupOnRequestPostCheck(users, body, dbOk)} :
           IF r.pending
           THEN /\ inflight' = [inflight EXCEPT ![p] = [op |-> "signup", body |-> body]]
                /\ last' = [op |-> "signup-check", req |-> body]
           ELSE /\ inflight' = inflight
                /\ last' = [op |-> "signup", req |-> body, dup |-> r.dup, resp |-> r.resp]
    /\ UNCHANGED <<users, sessions, nextSid, now>>

\* process p's request hashes the password, inserts the row and answers
SignupCreate(p, salt, dbOk) ==
    /\ inflight[p] # Idle
    /\ inflight[p].op = "signup"
    /\ Len(users) < MaxUsers
    /\ \E r \in {SignupOnRequestPostCreate(users, inflight[p].body, salt, now, dbOk)} :
           /\ users' = r.users
           /\ last' = [op |-> "signup", req |-> inflight[p].body, dup |-> r.dup,
                       resp |-> r.resp]
    /\ inflight' = [inflight EXCEPT ![p] = Idle]
    /\ UNCHANGED <<sessions, nextSid, now>>

InitSignup ==
    /\ users = <<>>
    /\ sessions = {}
    /\ nextSid = 1
    /\ now = 0
    /\ inflight = [p \in Procs |-> Idle]
    /\ last = [op |-> "init"]

SignupLoginBodies ==
    [email : {EmailA, EmailMixed}, password : {PasswordA}, keepLogin : {FALSE}]

NextSignup ==
    \/ \E p \in Procs, body \in SignupBodies, dbOk \in BOOLEAN : SignupBegin(p, body, dbOk)
    \/ \E p \in Procs, salt \in Salts, dbOk \in BOOLEAN : SignupCreate(p, salt, dbOk)
    \/ \E body \in SignupLoginBodies : Login(body, 0)

SpecSignup == InitSignup /\ [][NextSignup]_vars

(***************************************************************************)
(* SpecProfile: profile updates, with logouts and status changes running   *)
(* between a request's update and its re-verification.  The store holds    *)
(* the seeded accounts, two login sessions of the password account and the *)
(* session of a Kakao login.                                               *)
(***************************************************************************)
SeedSessions ==
    createSession(
        createSession(createSession({}, 1, 1, DaysShort, 0), 2, 1, DaysLong, 0),
        3, 2, DaysOAuth, 0)

ProfileBody(name, currentPassword, newPassword, newPasswordConfirm) ==
    [name |-> name, currentPassword |-> currentPassword,
     newPassword |-> newPassword, newPasswordConfirm |-> newPasswordConfirm]

ProfileBodies ==
    {ProfileBody(NameKim, "", "", ""),
     ProfileBody(<<"A">>, "", "", ""),
     ProfileBody(Undefined, "", "", ""),
     ProfileBody(Undefined, PasswordA, PasswordB, PasswordB),
     ProfileBody(NameKim, PasswordA, PasswordB, PasswordB),
     ProfileBody(NameKim, PasswordB, PasswordB, PasswordB),
     ProfileBody(NameKim, "", PasswordB, PasswordB),
     ProfileBody(Undefined, "", PasswordB, PasswordB),
     ProfileBody(NameKim, PasswordA, PasswordB, PasswordA),
     ProfileBody(NameKim, PasswordA, "short", "short")}

SessionsOf(S, uid) == {r.id : r \in {x \in S : x.user_id = uid}}

\* a profile request arrives and runs up to the end of updateUser; before
\* is the user's sessions in the store at that moment, row the user's row
ProfileBegin(sessionId, body, salt, fail) ==
    /\ inflight[1] = Idle
    /\ \E r \in {ProfileOnRequestPutUpdate(users, sessions, sessionId, now, body, salt, fail)} :
       \E ev \in {[req |-> body, sid |-> sessionId, uid |-> r.uid, fail |-> fail,
                   before |-> SessionsOf(sessions, r.uid),
                   row |-> IF r.uid = 0 THEN NULL ELSE users[r.uid]]} :
           /\ users' = r.users
           /\ IF r.pending
              THEN /\ inflight' = [inflight EXCEPT ![1] = [op |-> "profile", ev |-> ev]]
                   /\ last' = [op |-> "profile-update", ev |-> ev]
              ELSE /\ inflight' = inflight
                   /\ last' = [op |-> "profile", ev |-> ev, reverify |-> "none",
                                resp |-> r.resp]
    /\ UNCHANGED <<sessions, nextSid, now>>

\* the request re-verifies its session and answers; reverify is whether the
\* store answered the queries of that verifySession
ProfileFinish(dbOk) ==
    /\ inflight[1] # Idle
    /\ inflight[1].op = "profile"
    /\ last' = [op |-> "profile", ev |-> inflight[1].ev,
                reverify |-> IF dbOk THEN "ok" ELSE "failed",
                resp |-> ProfileOnRequestPutRespond(users, sessions, inflight[1].ev.sid,
                                                    now, dbOk)]
    /\ inflight' = [inflight EXCEPT ![1] = Idle]
    /\ UNCHANGED <<users, sessions, nextSid, now>>

InitProfile ==
    /\ users = SeedUsers
    /\ sessions = SeedSessions
    /\ nextSid = 4
    /\ now = 0
    /\ inflight = [p \in Procs |-> Idle]
    /\ last = [op |-> "init"]

NextProfile ==
    \/ \E sid \in 0..3, body \in ProfileBodies, salt \in Salts, fail \in 0..3 :
          ProfileBegin(sid, body, salt, fail)
    \/ \E dbOk \in BOOLEAN : ProfileFinish(dbOk)
    \/ \E sid \in 1..3 : Logout(sid, TRUE)
    \/ \E id \in 1..MaxUsers, status \in Statuses : SetStatus(id, status)

SpecProfile == InitProfile /\ [][NextProfile]_vars

(***************************************************************************)
(* SpecValidation: signups, logins and profile updates with valid and      *)
(* invalid bodies, one request at a time, with every store failure.        *)
(***************************************************************************)
ValidationLoginBodies ==
    [email : {EmailA, <<>>}, password : {PasswordA, PasswordB, ""}, keepLogin : {FALSE}]

ValidationSignupBodies == {SignupBody(EmailB)} \cup InvalidBodies

ValidationProfileBodies ==
    {ProfileBody(NameKim, "", "", ""),
     ProfileBody(<<"A">>, "", "", ""),
     ProfileBody(NameAnn, PasswordA, PasswordB, PasswordB),
     ProfileBody(NameKim, PasswordB, PasswordB, PasswordB),
     ProfileBody(NameKim, "", PasswordB, PasswordB),
     ProfileBody(NameKim, PasswordA, PasswordB, PasswordA),
     ProfileBody(NameKim, PasswordA, "short", "short")}

NextValidation ==
    \/ \E body \in ValidationLoginBodies, fail \in 0..3 : Login(body, fail)
    \/ \E body \in ValidationSignupBodies, dbOk \in BOOLEAN : SignupBegin(1, body, dbOk)
    \/ \E dbOk \in BOOLEAN : SignupCreate(1, <<10>>, dbOk)
    \/ \E sid \in 0..MaxSessions, body \in ValidationProfileBodies, fail \in 0..3 :
          ProfileBegin(sid, body, <<10>>, fail)
    \/ \E dbOk \in BOOLEAN : ProfileFinish(dbOk)

SpecValidation == Init /\ [][NextValidation]_vars

(***************************************************************************)
(* The OAuth callbacks, GET /api/auth/google/callback and                  *)
(* GET /api/auth/kakao/callback.  A request is its provider, whether the   *)
(* provider's client id and secret are configured, whether the query       *)
(* carries error, its code (<<>> when absent, else the provider identity   *)
(* the provider issued the code for), its state parameter and the value of *)
(* its oauth_state cookie ("" when absent).                                *)
(***************************************************************************)
\* Response.redirect(origin + page + "?error=...", 302) and its Set-Cookie
Redirect(page, error, cookies) ==
    [status |-> 302, location |-> page, error |-> error, cookies |-> cookies]

\* oauth_state=; HttpOnly; Secure; SameSite=Lax; Path=/; Max-Age=0
ClearStateCookie ==
    [name |-> "oauth_state", value |-> 0, HttpOnly |-> TRUE, Secure |-> TRUE,
     SameSite |-> "Lax", Path |-> "/", MaxAge |-> 0]

\* a state check that only asks for a state parameter
OAuthStatePresent(state, savedState) == state # ""

\* !(!state || state !== savedState)
OAuthStateValid(state, savedState) == ~(state = "" \/ state # savedState)

\* email.split('@')[0]
RECURSIVE LocalPart(_)
LocalPart(email) ==
    IF email = <<>> \/ Head(email) = "@" THEN <<>>
    ELSE <<Head(email)>> \o LocalPart(Tail(email))

\* kakaoId.slice(-4)
Slice4(s) == SubSeq(s, IF Len(s) > 4 THEN Len(s) - 3 ELSE 1, Len(s))

G1 == <<"g", "1">>
G2 == <<"g", "2">>
G3 == <<"g", "3">>
K1 == <<"k", "1">>
K2 == <<"k", "2">>

\* what Google's userinfo endpoint answers for an identity: G1 is a new
\* person, G2 the owner of the password account's address and nameless, G3
\* a person whose e-mail the payload does not carry
GoogleUserInfo(id) ==
    [id |-> id,
     email |-> IF id = G1 THEN EmailB ELSE IF id = G2 THEN EmailMixed ELSE Undefined,
     name |-> IF id = G2 THEN Undefined ELSE NameAnn]

\* what Kakao's /v2/user/me answers: K1 is the seeded Kakao account, K2 a
\* new person who discloses neither e-mail nor nickname
KakaoUserData(id) ==
    [id |-> id,
     email |-> IF id = K1 THEN EmailK ELSE Undefined,
     nickname |-> IF id = K1 THEN NameKim ELSE Undefined]

\* google/callback.js up to the state check: the redirect, or pending when
\* the handler goes on to the token request
GoogleOnRequestGetBegin(req) ==
    LET failed(error) ==
            [pending |-> FALSE, resp |-> Redirect("/index.html", error, NoCookies)]
    IN  IF ~req.configured THEN failed("unconfigured")
        ELSE IF req.error THEN failed("cancelled")
        ELSE IF req.code = <<>> THEN failed("no-code")
        ELSE IF ~OAuthStateValid(req.state, req.oauth_state) THEN failed("state")
        ELSE [pending |-> TRUE, resp |-> NULL]

\* kakao/callback.js up to the state check
KakaoOnRequestGetBegin(req) ==
    LET failed(error) ==
            [pending |-> FALSE, resp |-> Redirect("/index.html", error, NoCookies)]
    IN  IF ~req.configured THEN failed("unconfigured")
        ELSE IF req.error THEN failed("cancelled")
        ELSE IF req.code = <<>> THEN failed("no-code")
        ELSE IF ~OAuthStateValid(req.state, req.oauth_state) THEN failed("state")
        ELSE [pending |-> TRUE, resp |-> NULL]

\* the answers of a provider to the token request and the profile request:
\* the token request refused, a token answer without access_token, the
\* profile request refused, a profile without id, or both requests served
ProviderAnswers == {"token-failed", "no-token", "userinfo-failed", "no-id", "ok"}
GoogleAnswers == ProviderAnswers
KakaoAnswers == ProviderAnswers

\* the message of a failure redirect is one of the handler's literals;
\* errorData is the text a provider sent with a refusal
FixedErrors ==
    {"unconfigured", "cancelled", "no-code", "state", "token", "no-token",
     "userinfo", "internal"}
errorData == "provider-text"

\* the catch block of a callback
CallbackCatch == Redirect("/index.html", "internal", NoCookies)

\* google/callback.js, the token request and the userinfo request: the
\* redirect, or the data it passes to createOrGetSocialUser
\* (there is no check of access_token: the userinfo request then carries
\* "Bearer undefined", which the provider refuses; there is no check of
\* googleUser.id; with neither name nor email, email.split throws)
GoogleOnRequestGetExchange(req, answer) ==
    LET failed(error) ==
            [pending |-> FALSE, data |-> NULL,
             resp |-> Redirect("/index.html", error, NoCookies)]
        googleUser == IF answer = "no-id"
                      THEN [GoogleUserInfo(req.code) EXCEPT !.id = Undefined]
                      ELSE GoogleUserInfo(req.code)
    IN  IF answer = "token-failed" THEN failed("token")
        ELSE IF answer \in {"no-token", "userinfo-failed"} THEN failed("userinfo")
        ELSE IF googleUser.name = Undefined /\ googleUser.email = Undefined
        THEN [pending |-> FALSE, data |-> NULL, resp |-> CallbackCatch]
        ELSE [pending |-> TRUE,
              data |-> [provider |-> "google", providerId |-> googleUser.id,
                        email |-> googleUser.email,
                        name |-> IF googleUser.name # Undefined THEN googleUser.name
                                 ELSE LocalPart(googleUser.email)],
              resp |-> NULL]

\* a token step that forwards the provider's text to the login page
KakaoOnRequestGetExchangeRawError(req, answer) ==
    [pending |-> FALSE, data |-> NULL,
     resp |-> Redirect("/index.html", errorData, NoCookies)]

\* kakao/callback.js, the token request and the user request
KakaoOnRequestGetExchange(req, answer) ==
    LET failed(error) ==
            [pending |-> FALSE, data |-> NULL,
             resp |-> Redirect("/index.html", error, NoCookies)]
        kakaoUserData == KakaoUserData(req.code)
        kakaoId == kakaoUserData.id
    IN  IF answer = "token-failed" THEN failed("token")
        ELSE IF answer = "no-token" THEN failed("no-token")
        ELSE IF answer = "userinfo-failed" THEN failed("userinfo")
        ELSE IF answer = "no-id" THEN failed("userinfo")
        ELSE [pending |-> TRUE,
              data |-> [provider |-> "kakao", providerId |-> kakaoId,
                        email |-> IF kakaoUserData.email # Undefined
                                  THEN kakaoUserData.email
                                  ELSE kakaoId \o <<"@", "k", "a", "k", "a", "o", ".",
                                                    "t", "e", "m", "p">>,
                        name |-> IF kakaoUserData.nickname # Undefined
                                 THEN kakaoUserData.nickname
                                 ELSE <<"K", "U">> \o Slice4(kakaoId)],
              resp |-> NULL]

\* a redirect built by new Response(null, {status: 302, headers})
MainRedirect(sid) ==
    Redirect("/main.html", "",
             <<SessionCookie(sid, DaysOAuth * SecondsPerDay), ClearStateCookie>>)

\* google/callback.js, createSession and the response; an error createSession
\* throws is caught by the handler's catch, and so is the TypeError of
\* response.headers.set on the response of Response.redirect(), which is
\* thrown after createSession has stored the row (the headers of that
\* response are immutable; kakao.js says so where it builds its redirect by
\* hand)
GoogleOnRequestGetRespond(S, sid, userId, t, dbOk) ==
    IF ~dbOk
    THEN [sessions |-> S, created |-> FALSE, resp |-> CallbackCatch]
    ELSE [sessions |-> createSession(S, sid, userId, DaysOAuth, t), created |-> TRUE,
          resp |-> CallbackCatch]

\* kakao/callback.js, createSession and the response
KakaoOnRequestGetRespond(S, sid, userId, t, dbOk) ==
    IF ~dbOk
    THEN [sessions |-> S, created |-> FALSE, resp |-> CallbackCatch]
    ELSE [sessions |-> createSession(S, sid, userId, DaysOAuth, t), created |-> TRUE,
          resp |-> MainRedirect(sid)]

(***************************************************************************)
(* createOrGetSocialUser (imported from utils/db.js by both callbacks):    *)
(* find by provider identity, else find by normalized e-mail and link,     *)
(* else create; each step is one round trip to the store.                  *)
(***************************************************************************)
\* step 1: the id of the row with this provider identity, 0 when none
createOrGetSocialUserLookup(U, provider, providerId) ==
    IF \E i \in DOMAIN U : U[i].provider = provider /\ U[i].provider_id = providerId
    THEN CHOOSE i \in DOMAIN U :
            /\ U[i].provider = provider /\ U[i].provider_id = providerId
            /\ \A k \in DOMAIN U :
                  (U[k].provider = provider /\ U[k].provider_id = providerId) => i <= k
    ELSE 0

\* the engine consumes a profile with a providerId: called without one it
\* raises an error
createOrGetSocialUserThrows(data) == data.providerId = Undefined

\* the e-mail the engine works with: the one it is given, or a placeholder
\* {providerId}@{provider}.invalid when it is given none
createOrGetSocialUserEmail(data) ==
    IF data.email # Undefined THEN data.email
    ELSE data.providerId \o <<"@">>
         \o (IF data.provider = "google" THEN <<"g", "o", "o", "g", "l", "e">>
             ELSE <<"k", "a", "k", "a", "o">>)
         \o <<".", "i", "n", "v", "a", "l", "i", "d">>

\* step 2, the lookup: the id of the row with the normalized e-mail, 0 when none
createOrGetSocialUserLookupEmail(U, email) == SelectIdByEmail(U, NormalizeEmail(email))

\* step 2, the link: the provider identity is set on the row unless the row
\* belongs to a different provider; the e-mail is marked verified
createOrGetSocialUserLink(U, id, provider, providerId, t) ==
    IF U[id].provider \in {"email", provider}
    THEN [U EXCEPT ![id].provider = provider, ![id].provider_id = providerId,
                   ![id].email_verified = TRUE, ![id].updated_at = datetime(t)]
    ELSE [U EXCEPT ![id].email_verified = TRUE, ![id].updated_at = datetime(t)]

\* step 3: the INSERT; a conflict with the UNIQUE e-mail is resolved by
\* reading the row that now exists
createOrGetSocialUserInsert(U, data, t) ==
    LET email == NormalizeEmail(data.email)
        byIdentity == createOrGetSocialUserLookup(U, data.provider, data.providerId)
    IN  IF EmailTaken(U, email)
        THEN [users |-> U, conflict |-> TRUE,
              id |-> IF byIdentity # 0 THEN byIdentity ELSE SelectIdByEmail(U, email)]
        ELSE [users |-> Append(U, SocialUserRow(data.provider, data.providerId,
                                                data.email, data.name, t)),
              conflict |-> FALSE, id |-> Len(U) + 1]

(***************************************************************************)
(* SpecOAuth: the OAuth callbacks.                                         *)
(***************************************************************************)
OAuthRequest(provider, configured, error, code, state, oauth_state) ==
    [provider |-> provider, configured |-> configured, error |-> error,
     code |-> code, state |-> state, oauth_state |-> oauth_state]

\* the pairings of state parameter and oauth_state cookie
StatePairs ==
    {<<"s1", "s1">>, <<"", "">>, <<"", "s1">>, <<"s1", "">>, <<"s2", "s1">>}

\* callbacks of every identity with a state equal to the cookie, callbacks
\* with every pairing of state and cookie, and callbacks that fail an
\* earlier check
OAuthRequests ==
    {OAuthRequest("google", TRUE, FALSE, code, "s1", "s1") : code \in {G1, G2, G3}}
    \cup {OAuthRequest("kakao", TRUE, FALSE, code, "s1", "s1") : code \in {K1, K2}}
    \cup {OAuthRequest("google", TRUE, FALSE, G1, sp[1], sp[2]) : sp \in StatePairs}
    \cup {OAuthRequest("kakao", TRUE, FALSE, K1, sp[1], sp[2]) : sp \in StatePairs}
    \cup {OAuthRequest(provider, FALSE, FALSE, <<>>, "s1", "s1") :
            provider \in {"google", "kakao"}}
    \cup {OAuthRequest(provider, TRUE, TRUE, <<>>, "s1", "s1") :
            provider \in {"google", "kakao"}}
    \cup {OAuthRequest(provider, TRUE, FALSE, <<>>, "s1", "s1") :
            provider \in {"google", "kakao"}}

\* process p's callback at step pc
OAuthFlight(req, pc, data, uid, conflict) ==
    [op |-> "oauth", req |-> req, pc |-> pc, data |-> data, uid |-> uid,
     conflict |-> conflict]

AtStep(p, pc) == inflight[p].op = "oauth" /\ inflight[p].pc = pc

\* a callback arrives at process p and runs up to the state check
OAuthBegin(p, req) ==
    /\ inflight[p] = Idle
    /\ \E r \in {IF req.provider = "google" THEN GoogleOnRequestGetBegin(req)
                 ELSE KakaoOnRequestGetBegin(req)} :
           IF r.pending
           THEN /\ inflight' = [inflight EXCEPT
                                  ![p] = OAuthFlight(req, "exchange", NULL, 0, FALSE)]
                /\ last' = [op |-> "oauth-step"]
           ELSE /\ inflight' = inflight
                /\ last' = [op |-> "oauth", req |-> req, resp |-> r.resp]
    /\ UNCHANGED <<users, sessions, nextSid, now>>

\* the provider answers the token request and the profile request
OAuthExchange(p, answer) ==
    /\ AtStep(p, "exchange")
    /\ answer \in (IF inflight[p].req.provider = "google" THEN GoogleAnswers
                   ELSE KakaoAnswers)
    /\ \E r \in {IF inflight[p].req.provider = "google"
                 THEN GoogleOnRequestGetExchange(inflight[p].req, answer)
                 ELSE KakaoOnRequestGetExchange(inflight[p].req, answer)} :
           IF r.pending
           THEN /\ inflight' = [inflight EXCEPT
                                  ![p] = OAuthFlight(inflight[p].req, "lookup", r.data,
                                                     0, FALSE)]
                /\ last' = [op |-> "oauth-step"]
           ELSE /\ inflight' = [inflight EXCEPT ![p] = Idle]
                /\ last' = [op |-> "oauth", req |-> inflight[p].req, resp |-> r.resp]
    /\ UNCHANGED <<users, sessions, nextSid, now>>

\* createOrGetSocialUser looks the provider identity up, or raises the
\* error the callback's catch answers
OAuthLookup(p) ==
    /\ AtStep(p, "lookup")
    /\ IF createOrGetSocialUserThrows(inflight[p].data)
       THEN /\ inflight' = [inflight EXCEPT ![p] = Idle]
            /\ last' = [op |-> "oauth", req |-> inflight[p].req, resp |-> CallbackCatch]
       ELSE /\ \E id \in {createOrGetSocialUserLookup(users, inflight[p].data.provider,
                                                      inflight[p].data.providerId)} :
                   inflight' = [inflight EXCEPT
                                  ![p].pc = IF id # 0 THEN "session" ELSE "lookupEmail",
                                  ![p].uid = id,
                                  ![p].data.email =
                                      createOrGetSocialUserEmail(inflight[p].data)]
            /\ last' = [op |-> "oauth-step"]
    /\ UNCHANGED <<users, sessions, nextSid, now>>

\* createOrGetSocialUser looks the e-mail up
OAuthLookupEmail(p) ==
    /\ AtStep(p, "lookupEmail")
    /\ \E id \in {createOrGetSocialUserLookupEmail(users, inflight[p].data.email)} :
           inflight' = [inflight EXCEPT
                          ![p].pc = IF id # 0 THEN "link" ELSE "insert",
                          ![p].uid = id]
    /\ last' = [op |-> "oauth-step"]
    /\ UNCHANGED <<users, sessions, nextSid, now>>

\* createOrGetSocialUser links the identity onto the row it found
OAuthLink(p) ==
    /\ AtStep(p, "link")
    /\ users' = createOrGetSocialUserLink(users, inflight[p].uid,
                                          inflight[p].data.provider,
                                          inflight[p].data.providerId, now)
    /\ inflight' = [inflight EXCEPT ![p].pc = "session"]
    /\ last' = [op |-> "oauth-step"]
    /\ UNCHANGED <<sessions, nextSid, now>>

\* createOrGetSocialUser inserts the row, or meets the row another callback
\* inserted
OAuthInsert(p) ==
    /\ AtStep(p, "insert")
    /\ \E r \in {createOrGetSocialUserInsert(users, inflight[p].data, now)} :
           /\ Len(r.users) <= MaxUsers
           /\ users' = r.users
           /\ inflight' = [inflight EXCEPT ![p].pc = "session", ![p].uid = r.id,
                                           ![p].conflict = r.conflict]
    /\ last' = [op |-> "oauth-step"]
    /\ UNCHANGED <<sessions, nextSid, now>>

\* the callback creates the session and answers
OAuthRespond(p, dbOk) ==
    /\ AtStep(p, "session")
    /\ nextSid <= MaxSessions
    /\ \E r \in {IF inflight[p].req.provider = "google"
                 THEN GoogleOnRequestGetRespond(sessions, nextSid, inflight[p].uid, now, dbOk)
                 ELSE KakaoOnRequestGetRespond(sessions, nextSid, inflight[p].uid, now, dbOk)} :
           /\ sessions' = r.sessions
           /\ nextSid' = IF r.created THEN nextSid + 1 ELSE nextSid
           /\ last' = [op |-> "oauth", req |-> inflight[p].req, resp |-> r.resp]
    /\ inflight' = [inflight EXCEPT ![p] = Idle]
    /\ UNCHANGED <<users, now>>

\* one callback at a time, every step of it
NextOAuth ==
    \/ \E req \in OAuthRequests : OAuthBegin(1, req)
    \/ \E answer \in KakaoAnswers : OAuthExchange(1, answer)
    \/ OAuthLookup(1)
    \/ OAuthLookupEmail(1)
    \/ OAuthLink(1)
    \/ OAuthInsert(1)
    \/ \E dbOk \in BOOLEAN : OAuthRespond(1, dbOk)

SpecOAuth == Init /\ [][NextOAuth]_vars

(***************************************************************************)
(* SpecSocial: concurrent callbacks inside createOrGetSocialUser.  The     *)
(* steps of a callback before the call do not touch the store, and the     *)
(* step after it (createSession) leaves the users alone.                   *)
(***************************************************************************)
\* the data the callbacks pass to createOrGetSocialUser
SocialData ==
    {GoogleOnRequestGetExchange(OAuthRequest("google", TRUE, FALSE, code, "s1", "s1"),
                                "ok").data : code \in {G1, G2}}
    \cup {KakaoOnRequestGetExchange(OAuthRequest("kakao", TRUE, FALSE, code, "s1", "s1"),
                                    "ok").data : code \in {K1, K2}}

\* process p's callback calls createOrGetSocialUser
SocialCall(p, data) ==
    /\ inflight[p] = Idle
    /\ inflight' = [inflight EXCEPT
                      ![p] = OAuthFlight(OAuthRequest(data.provider, TRUE, FALSE,
                                                      data.providerId, "s1", "s1"),
                                         "lookup", data, 0, FALSE)]
    /\ last' = [op |-> "oauth-step"]
    /\ UNCHANGED <<users, sessions, nextSid, now>>

\* createOrGetSocialUser has returned the user to process p's callback
SocialReturn(p) ==
    /\ AtStep(p, "session")
    /\ inflight' = [inflight EXCEPT ![p] = Idle]
    /\ last' = [op |-> "oauth-step"]
    /\ UNCHANGED <<users, sessions, nextSid, now>>

NextSocial ==
    \/ \E p \in Procs, data \in SocialData : SocialCall(p, data)
    \/ \E p \in Procs : OAuthLookup(p)
    \/ \E p \in Procs : OAuthLookupEmail(p)
    \/ \E p \in Procs : OAuthLink(p)
    \/ \E p \in Procs : OAuthInsert(p)
    \/ \E p \in Procs : SocialReturn(p)

SpecSocial == Init /\ [][NextSocial]_vars

(***************************************************************************)
(* SpecSessions: the operations of session.js, called for any user.        *)
(***************************************************************************)
\* a caller creates a session for a user
CreateSession(userId, expiresInDays) ==
    /\ nextSid <= MaxSessions
    /\ userId \in DOMAIN users
    /\ sessions' = createSession(sessions, nextSid, userId, expiresInDays, now)
    /\ nextSid' = nextSid + 1
    /\ last' = [op |-> "createSession", uid |-> userId, sid |-> nextSid]
    /\ UNCHANGED <<users, now, inflight>>

\* a caller deletes every session of a user
DeleteAllUserSessions(userId, store) ==
    /\ \E r \in {deleteAllUserSessions(sessions, userId, store)} :
           /\ sessions' = r.sessions
           /\ last' = [op |-> "deleteAllUserSessions", uid |-> userId,
                       outcome |-> r.outcome]
    /\ UNCHANGED <<users, nextSid, now, inflight>>

NextSessions ==
    \/ \E userId \in 1..MaxUsers, days \in {DaysShort, DaysLong} :
          CreateSession(userId, days)
    \/ \E userId \in 1..MaxUsers, store \in StoreOutcomes :
          DeleteAllUserSessions(userId, store)
    \/ \E sid \in 0..MaxSessions, dbOk \in BOOLEAN : Logout(sid, dbOk)
    \/ \E sid \in 0..MaxSessions, dbOk \in BOOLEAN : Me(sid, dbOk)

SpecSessions == Init /\ [][NextSessions]_vars

(***************************************************************************)
(* SpecUsers: updateUser called by any caller, for any user id, while the  *)
(* clock runs and accounts change status.                                  *)
(***************************************************************************)
NamePadded == <<" ">> \o NameKim \o <<" ">>

\* the userData of a call: a name, a name to trim, no field at all, and a
\* passwordHash with and without a name
UpdateData ==
    {[name |-> NameKim], [name |-> NamePadded], [name |-> Undefined],
     [name |-> Undefined, passwordHash |-> hashPassword(PasswordB, <<255>>)],
     [name |-> NameAnn, passwordHash |-> hashPassword(PasswordB, <<255>>)]}

\* a caller updates a user
UpdateUser(userId, userData, dbOk) ==
    /\ \E r \in {updateUser(users, userId, userData, now, dbOk)} :
           /\ users' = r.users
           /\ last' = [op |-> "updateUser", uid |-> userId, userData |-> userData,
                       outcome |-> r.outcome, stored |-> dbOk, at |-> now]
    /\ UNCHANGED <<sessions, nextSid, now, inflight>>

NextUsers ==
    \/ \E userId \in 1..MaxUsers, userData \in UpdateData, dbOk \in BOOLEAN :
          UpdateUser(userId, userData, dbOk)
    \/ now < MaxUpdateTime /\ Tick
    \/ \E id \in 1..MaxUsers, status \in Statuses : SetStatus(id, status)

SpecUsers == Init /\ [][NextUsers]_vars

(***************************************************************************)
(* The OAuth begin endpoints, GET /api/auth/google, /api/auth/naver and    *)
(* /api/auth/kakao.  configured is whether the client id is set, state the *)
(* value crypto.randomUUID() returns (a fresh UUID, modelled by the next   *)
(* unused number), thrown the message of an error a statement of the try   *)
(* block throws ("" when none does).                                       *)
(***************************************************************************)
\* Max-Age of the oauth_state cookie
StateMaxAge == 600

\* oauth_state=${state}; HttpOnly; Secure; SameSite=Lax; Path=/; Max-Age=600
StateCookie(state) ==
    [name |-> "oauth_state", value |-> state, HttpOnly |-> TRUE, Secure |-> TRUE,
     SameSite |-> "Lax", Path |-> "/", MaxAge |-> StateMaxAge]

\* the 302 to the provider's authorization URL, whose query carries state
AuthRedirect(provider, state, cookies) ==
    [status |-> 302, location |-> provider, state |-> state, cookies |-> cookies,
     error |-> "", details |-> ""]

\* Response.json({success: false, error, details}, {status: 500}); details
\* is "" when the body has no such member
AuthError(error, details) ==
    [status |-> 500, location |-> "", state |-> 0, cookies |-> NoCookies,
     error |-> error, details |-> details]

\* google.js: the redirect is made by Response.redirect(), whose headers
\* are immutable, so response.headers.set throws a TypeError when no earlier
\* statement has thrown; the catch answers either error without details
GoogleAuthOnRequestGet(configured, state, thrown) ==
    IF ~configured THEN AuthError("unconfigured", "")
    ELSE AuthError("generic", "")

\* part_004, naver: the redirect is built with its headers; the catch
\* answers with details: error.message
NaverAuthOnRequestGet(configured, state, thrown) ==
    IF ~configured THEN AuthError("unconfigured", "")
    ELSE IF thrown # "" THEN AuthError("generic", thrown)
    ELSE AuthRedirect("naver", state, <<StateCookie(state)>>)

\* part_004, kakao
KakaoAuthOnRequestGet(configured, state, thrown) ==
    IF ~configured THEN AuthError("unconfigured", "")
    ELSE IF thrown # "" THEN AuthError("generic", thrown)
    ELSE AuthRedirect("kakao", state, <<StateCookie(state)>>)

(***************************************************************************)
(* SpecBegin: browsers start OAuth logins.  inflight[p] is what browser p  *)
(* holds between the begin endpoint's redirect and its return from the     *)
(* provider: the state of the URL it was sent to and its oauth_state       *)
(* cookie.                                                                 *)
(***************************************************************************)
Providers == {"google", "naver", "kakao"}

\* the messages of errors thrown inside a begin endpoint
ThrownMessages == {"", "runtime-error-text"}

Authorizing(provider, state, cookies) ==
    [op |-> "authorize", provider |-> provider, state |-> state,
     oauth_state |-> cookies[1].value]

\* browser p requests a begin endpoint
AuthBegin(p, provider, configured, thrown) ==
    /\ nextSid <= MaxStateTokens
    /\ \E r \in {IF provider = "google"
                 THEN GoogleAuthOnRequestGet(configured, nextSid, thrown)
                 ELSE IF provider = "naver"
                 THEN NaverAuthOnRequestGet(configured, nextSid, thrown)
                 ELSE KakaoAuthOnRequestGet(configured, nextSid, thrown)} :
           /\ inflight' = IF r.status = 302
                          THEN [inflight EXCEPT
                                  ![p] = Authorizing(provider, r.state, r.cookies)]
                          ELSE inflight
           /\ last' = [op |-> "begin", provider |-> provider,
                       configured |-> configured, thrown |-> thrown,
                       uuid |-> nextSid, resp |-> r]
    /\ nextSid' = IF configured THEN nextSid + 1 ELSE nextSid
    /\ UNCHANGED <<users, sessions, now>>

\* browser p comes back from the provider and its callback is answered
AuthReturn(p) ==
    /\ inflight[p].op = "authorize"
    /\ inflight' = [inflight EXCEPT ![p] = Idle]
    /\ last' = [op |-> "return"]
    /\ UNCHANGED <<users, sessions, nextSid, now>>

NextBegin ==
    \/ \E p \in Procs, provider \in Providers, configured \in BOOLEAN,
          thrown \in ThrownMessages : AuthBegin(p, provider, configured, thrown)
    \/ \E p \in Procs : AuthReturn(p)

SpecBegin == Init /\ [][NextBegin]_vars

(***************************************************************************)
(* SpecState: one browser starts OAuth logins and comes back to the        *)
(* callbacks.  inflight[2] is the browser: the login attempts it has begun *)
(* (the provider and the state of each redirect it followed) and its       *)
(* oauth_state cookie, "" when it holds none; inflight[1] is the callback  *)
(* request in flight.                                                      *)
(***************************************************************************)
\* the text of the n-th state token (crypto.randomUUID())
StateNames == <<"s1", "s2", "s3", "s4", "s5", "s6">>
StateText(n) == StateNames[n]

Browser(attempts, oauth_state) ==
    [op |-> "browser", attempts |-> attempts, oauth_state |-> oauth_state]

\* the cookie jar after a response: a Set-Cookie of oauth_state replaces the
\* cookie, one with Max-Age=0 removes it
CookieJar(oauth_state, cookies) ==
    IF \E k \in DOMAIN cookies : cookies[k].name = "oauth_state"
    THEN LET c == cookies[CHOOSE k \in DOMAIN cookies : cookies[k].name = "oauth_state"]
         IN  IF c.MaxAge = 0 THEN "" ELSE c.value
    ELSE oauth_state

\* the browser requests a begin endpoint and follows its redirect
StateBegin(provider) ==
    /\ Cardinality(inflight[2].attempts) < MaxStateTokens
    /\ \E state \in {StateText(Cardinality(inflight[2].attempts) + 1)} :
       \E r \in {IF provider = "google" THEN GoogleAuthOnRequestGet(TRUE, state, "")
                 ELSE IF provider = "naver" THEN NaverAuthOnRequestGet(TRUE, state, "")
                 ELSE KakaoAuthOnRequestGet(TRUE, state, "")} :
           /\ inflight' = [inflight EXCEPT
                   ![2] = Browser(IF r.status = 302
                                  THEN inflight[2].attempts
                                           \cup {[provider |-> provider, state |-> r.state]}
                                  ELSE inflight[2].attempts,
                                  CookieJar(inflight[2].oauth_state, r.cookies))]
           /\ last' = [op |-> "begin", provider |-> provider, resp |-> r]
    /\ UNCHANGED <<users, sessions, nextSid, now>>

\* the browser comes back to a callback with a code, the state of one of its
\* attempts and the cookie it holds
StateCallback(provider, code, state) ==
    /\ \E a \in inflight[2].attempts : a.state = state
    /\ OAuthBegin(1, OAuthRequest(provider, TRUE, FALSE, code, state,
                                  inflight[2].oauth_state))

\* the browser stores the cookies of the callback's response
StateReceive ==
    /\ last.op = "oauth"
    /\ inflight' = [inflight EXCEPT
            ![2] = Browser(inflight[2].attempts,
                           CookieJar(inflight[2].oauth_state, last.resp.cookies))]
    /\ last' = [op |-> "received"]
    /\ UNCHANGED <<users, sessions, nextSid, now>>

InitState ==
    /\ users = SeedUsers
    /\ sessions = {}
    /\ nextSid = 1
    /\ now = 0
    /\ inflight = [p \in Procs |-> IF p = 2 THEN Browser({}, "") ELSE Idle]
    /\ last = [op |-> "init"]

NextState ==
    \/ \E provider \in Providers : StateBegin(provider)
    \/ \E n \in 1..MaxStateTokens :
          \/ \E code \in {G1, G2} : StateCallback("google", code, StateText(n))
          \/ StateCallback("kakao", K1, StateText(n))
    \/ \E answer \in {"token-failed", "ok"} : OAuthExchange(1, answer)
    \/ OAuthLookup(1)
    \/ OAuthLookupEmail(1)
    \/ OAuthLink(1)
    \/ OAuthInsert(1)
    \/ \E dbOk \in BOOLEAN : OAuthRespond(1, dbOk)
    \/ StateReceive

SpecState == InitState /\ [][NextState]_vars

(***************************************************************************)
(* SpecVerify: verifySession called by any caller with any session id,     *)
(* among logins, while the clock runs past the expiry of the sessions and  *)
(* the account changes status.                                             *)
(***************************************************************************)
VerifySession(sessionId, dbOk) ==
    /\ \E r \in {verifySessionEffect(users, sessions, sessionId, now, dbOk)} :
           /\ users' = r.users
           /\ sessions' = r.sessions
    /\ last' = [op |-> "verifySession", sid |-> sessionId, dbOk |-> dbOk, at |-> now,
                result |-> verifySession(users, sessions, sessionId, now, dbOk)]
    /\ UNCHANGED <<nextSid, now, inflight>>

NextVerify ==
    \/ \E body \in SessionLoginBodies : Login(body, 0)
    \/ \E sid \in 0..MaxSessions, dbOk \in BOOLEAN : VerifySession(sid, dbOk)
    \/ Tick
    \/ \E status \in Statuses : SetStatus(1, status)

SpecVerify == Init /\ [][NextVerify]_vars

(***************************************************************************)
(* SpecHash: hashPassword and verifyPassword on passwords and on stored    *)
(* hashes of every shape.                                                  *)
(***************************************************************************)
HashPasswords == {PasswordA, PasswordB, PasswordD800, PasswordD801, "short", ""}

\* the hashes hashPassword encodes
EncodedHashes == {hashPassword(p, salt) : p \in HashPasswords, salt \in Salts}

\* the hash of PasswordA under the salt of byte 0
HashOfZeroSalt == PBKDF2(<<0>>, Combined(<<0>>, PasswordA))

\* stored values that are no "saltHex:hashHex" of hex digits: "", "0a",
\* ":<hash>", "0a:zz", "zz:<hash>", "zz:<hash under salt 00>",
\* "0a:<hash>:00"
MalformedHashes ==
    {<< <<>> >>,
     << <<"0", "a">> >>,
     << <<>>, hashPassword(PasswordA, <<10>>)[2] >>,
     << <<"0", "a">>, <<"z", "z">> >>,
     << <<"z", "z">>, hashPassword(PasswordA, <<10>>)[2] >>,
     << <<"z", "z">>, HashOfZeroSalt >>,
     hashPassword(PasswordA, <<10>>) \o << <<"0", "0">> >>}

\* the length of the digests compared, in hex digits
DigestLen == 3

\* hex strings a derived digest and a stored digest can be
Digests == [1..DigestLen -> {"a", "b"}] \cup [1..(DigestLen - 1) -> {"a", "b"}]

\* the number of leading positions at which two strings agree
RECURSIVE MatchingPrefix(_, _)
MatchingPrefix(x, y) ==
    IF x = <<>> \/ y = <<>> \/ Head(x) # Head(y) THEN 0
    ELSE 1 + MatchingPrefix(Tail(x), Tail(y))

\* how the engine that runs the code compares two strings with ===: the
\* language fixes the result only; an engine compares the lengths and then
\* the code units, up to the first difference or all of them
Engines == {"first-difference", "every-unit"}

\* the code units computedHash === hashHex examines
StrictEqualsSteps(x, y, engine) ==
    IF Len(x) # Len(y) THEN 0
    ELSE IF engine = "every-unit" THEN Len(x)
    ELSE IF MatchingPrefix(x, y) = Len(x) THEN Len(x)
    ELSE MatchingPrefix(x, y) + 1

\* the last statement of verifyPassword: return computedHash === hashHex
CompareDigests(computedHash, hashHex, engine) ==
    /\ last' = [op |-> "compare", computedHash |-> computedHash, hashHex |-> hashHex,
                engine |-> engine, result |-> computedHash = hashHex,
                steps |-> StrictEqualsSteps(computedHash, hashHex, engine)]
    /\ UNCHANGED <<users, sessions, nextSid, now, inflight>>

HashPassword(password, salt) ==
    /\ last' = [op |-> "hashPassword", password |-> password,
                hash |-> hashPassword(password, salt)]
    /\ UNCHANGED <<users, sessions, nextSid, now, inflight>>

VerifyPassword(password, hash) ==
    /\ last' = [op |-> "verifyPassword", password |-> password, hash |-> hash,
                result |-> verifyPasswordResult(password, hash)]
    /\ UNCHANGED <<users, sessions, nextSid, now, inflight>>

NextHash ==
    \/ \E password \in HashPasswords, salt \in Salts : HashPassword(password, salt)
    \/ \E password \in HashPasswords, hash \in EncodedHashes \cup MalformedHashes :
          VerifyPassword(password, hash)
    \/ \E computedHash \in Digests, hashHex \in Digests, engine \in Engines :
          CompareDigests(computedHash, hashHex, engine)

SpecHash == Init /\ [][NextHash]_vars

(***************************************************************************)
(* Claims about the session lifecycle (Spec) and login (SpecLogin).        *)
(***************************************************************************)
\* a session row exists for s, expires strictly after the current instant,
\* and its owner exists and is active
ValidSession(s) ==
    \E r \in sessions :
        /\ r.id = s
        /\ InstantOf(r.expires_at) > now
        /\ r.user_id \in DOMAIN users
        /\ users[r.user_id].status = "active"

\* C1: verifySession(s) returns a user if and only if a session row with id s
\* exists, its expires_at is strictly later than the current time, and its
\* owner exists with status 'active'; otherwise it returns absent.
C1_VerifyIffValid ==
    \A s \in 0..MaxSessions :
        (verifySession(users, sessions, s, now, TRUE) # NULL) <=> ValidSession(s)

\* the account a login body names: its id, 0 when there is none
AccountOf(body) == getUserByEmail(users, body.email)

\* C4: a password login for an existing account without a password
\* credential is never answered 401 or 200, sets no cookie and leaves the
\* account without a session, whatever the password; when the request
\* supplies a password and the account lookup is answered, the response is
\* 403 with isSocialLogin and the account's provider tag.
C4_SocialAccountLogin403 ==
    (last.op = "login" /\ last.req.email # <<>> /\ AccountOf(last.req) # 0
        /\ users[AccountOf(last.req)].password_hash = NoHash)
    => /\ last.resp.status \notin {401, 200}
       /\ last.resp.cookies = NoCookies
       /\ \A r \in sessions : r.user_id # AccountOf(last.req)
       /\ (last.req.password # "" /\ last.fail # 1)
            => /\ last.resp.status = 403
               /\ last.resp.isSocialLogin
               /\ last.resp.provider = users[AccountOf(last.req)].provider

\* C4's case: a login for the Kakao account with a password another account
\* uses has just been answered 403 with the provider tag
C4_Witness ==
    /\ last.op = "login"
    /\ last.req.email = EmailK
    /\ last.req.password = PasswordA
    /\ last.resp.status = 403
    /\ last.resp.provider = "kakao"

\* the seconds between a session row's creation and its expiry
LifetimeSeconds(r) ==
    ((InstantOf(r.expires_at) - InstantOf(r.created_at)) * SecondsPerDay) \div TicksPerDay

\* C10: the session cookie of a successful password login has a Max-Age
\* equal to the lifetime of the session row created for it, 604800 s without
\* keepLogin and 2592000 s with it, and carries HttpOnly, Secure,
\* SameSite=Lax and Path=/.
C10_CookieMaxAgeIsSessionLifetime ==
    (last.op = "login" /\ last.resp.status = 200)
    => /\ Len(last.resp.cookies) = 1
       /\ LET c == last.resp.cookies[1]
          IN  /\ c.name = "session"
              /\ c.HttpOnly /\ c.Secure /\ c.SameSite = "Lax" /\ c.Path = "/"
              /\ c.MaxAge = (IF last.req.keepLogin THEN 2592000 ELSE 604800)
              /\ \E r \in sessions :
                    /\ r.id = c.value
                    /\ r.user_id = AccountOf(last.req)
                    /\ LifetimeSeconds(r) = c.MaxAge
                    /\ InstantOf(r.expires_at) - InstantOf(r.created_at)
                         = (IF last.req.keepLogin THEN 30 ELSE 7) * TicksPerDay

\* C10's case: a login with keepLogin has just been answered 200
C10_Witness ==
    /\ last.op = "login"
    /\ last.resp.status = 200
    /\ last.req.keepLogin
    /\ last.resp.cookies[1].MaxAge = 2592000

\* C9 as claimed: after a logout carrying session id s has been answered
\* with success, verifySession(s) returns absent.
C9_LogoutAnsweredImpliesDeleted ==
    (last.op = "logout" /\ last.sid # 0 /\ last.resp.status = 200)
    => verifySession(users, sessions, last.sid, now, TRUE) = NULL

\* C9 as amended: a logout whose DELETE the store executed leaves no row
\* with its session id, and a session id that was issued and is no longer in
\* the store never returns to it, so verifySession answers absent for it in
\* every later state.
C9_ExecutedLogoutDeletesForGood ==
    [][ /\ (last'.op = "logout" /\ last'.sid # 0 /\ last'.dbOk)
            => /\ last'.sid \notin SessionIds(sessions')
               /\ verifySession(users', sessions', last'.sid, now', TRUE) = NULL
        /\ \A s \in 1..MaxSessions :
              (s < nextSid /\ s \notin SessionIds(sessions))
              => /\ s \notin SessionIds(sessions')
                 /\ verifySession(users', sessions', s, now', TRUE) = NULL ]_vars

\* C9's case: the logout of an issued session has just been executed and
\* answered with success while the account is active and the clock is
\* within the session's lifetime
C9_Witness ==
    /\ last.op = "logout"
    /\ last.dbOk
    /\ last.resp.status = 200
    /\ last.sid \in 1..(nextSid - 1)
    /\ last.sid \notin SessionIds(sessions)
    /\ users[1].status = "active"
    /\ now < DaysShort * TicksPerDay

(***************************************************************************)
(* Claims about signup (SpecSignup).                                       *)
(***************************************************************************)
\* C5: a signup whose e-mail has surrounding whitespace and mixed case
\* ("A@Ex.COM ") and otherwise valid fields is not rejected as invalid: it
\* is answered 201 (or, the address being taken or the store failing, 409 or
\* 500) and, answered 201, has stored the trimmed, lower-cased address.
C5_RawEmailSignupSucceeds ==
    (last.op = "signup" /\ last.req = SignupBody(EmailRaw))
    => /\ last.resp.status # 400
       /\ last.resp.status = 201 => EmailTaken(users, EmailA)

\* C6: a signup whose normalized e-mail already belongs to a user, found by
\* the existence check or only by the INSERT, is answered 409.
C6_DuplicateEmailAnswered409 ==
    (last.op = "signup" /\ last.dup) => last.resp.status = 409

(***************************************************************************)
(* Claims about the profile update (SpecProfile).                          *)
(***************************************************************************)
\* the last step answered with success a profile update that carried a new
\* password
PasswordChangeAnswered ==
    /\ last.op = "profile"
    /\ last.resp.status = 200
    /\ last.ev.req.newPassword # ""

\* C2: after a profile update that changed the password was answered with
\* success, no session the user had before the change verifies.
C2_PasswordChangeInvalidatesSessions ==
    PasswordChangeAnswered
    => \A s \in last.ev.before : verifySession(users, sessions, s, now, TRUE) = NULL

\* C3: when a profile update carrying a valid newPassword answers success,
\* the stored credential is a hash of newPassword, and a password login with
\* newPassword succeeds.
C3_PasswordChangeStored ==
    PasswordChangeAnswered
    => /\ users[last.ev.uid].password_hash # NoHash
       /\ verifyPassword(last.ev.req.newPassword, users[last.ev.uid].password_hash)
       /\ (users[last.ev.uid].status = "active")
            => LoginOnRequestPost(users, sessions, nextSid, now,
                                  [email |-> users[last.ev.uid].email,
                                   password |-> last.ev.req.newPassword,
                                   keepLogin |-> FALSE], 0).resp.status = 200

(***************************************************************************)
(* Claims about the OAuth callbacks (SpecOAuth).                           *)
(***************************************************************************)
\* the state parameter is absent, or the cookie is, or the two differ
StateMismatch(req) ==
    req.state = "" \/ req.oauth_state = "" \/ req.state # req.oauth_state

\* C7: an OAuth callback (Google or Kakao) whose state parameter is absent,
\* or differs from the oauth_state cookie, or arrives without that cookie, is
\* answered by a redirect to the login page that sets no cookie, leaves the
\* users and the sessions as they were, and never goes on to the provider
\* exchange: every callback past the state check carries a state equal to
\* its cookie.
C7_StateMismatchStopsCallback ==
    [][ /\ (last'.op = "oauth" /\ StateMismatch(last'.req))
            => /\ users' = users
               /\ sessions' = sessions
               /\ inflight' = inflight
               /\ last'.resp.location = "/index.html"
               /\ last'.resp.error # ""
               /\ last'.resp.cookies = NoCookies
        /\ \A p \in Procs :
              inflight'[p].op = "oauth" => ~StateMismatch(inflight'[p].req) ]_vars

\* C7's case: a callback with a code, whose state differs from its cookie,
\* has just been refused, after an earlier callback created a user
C7_Witness ==
    /\ last.op = "oauth"
    /\ last.req.code # <<>>
    /\ last.req.state = "s2"
    /\ last.req.oauth_state = "s1"
    /\ last.resp.error = "state"
    /\ Len(users) > Len(SeedUsers)

\* the rows that carry a provider identity
RowsOf(provider, providerId) ==
    {i \in DOMAIN users : users[i].provider = provider /\ users[i].provider_id = providerId}

\* C8: callbacks that call find-or-create with the same (provider,
\* providerId) leave exactly one users row with that identity and all return
\* its id, also when the create step of one met the row another had just
\* inserted: the conflict is resolved by re-reading and returns a user.
C8_ConcurrentFindOrCreateConverges ==
    /\ \A i, j \in DOMAIN users :
          (users[i].provider_id # NullText /\ users[i].provider = users[j].provider
             /\ users[i].provider_id = users[j].provider_id) => i = j
    /\ \A p \in Procs :
          AtStep(p, "session")
          => RowsOf(inflight[p].data.provider, inflight[p].data.providerId)
                = {inflight[p].uid}
    /\ \A p, q \in Procs :
          (AtStep(p, "session") /\ AtStep(q, "session")
             /\ inflight[p].data.provider = inflight[q].data.provider
             /\ inflight[p].data.providerId = inflight[q].data.providerId)
          => inflight[p].uid = inflight[q].uid

\* C8's case: two callbacks for the new Google identity have both returned
\* from find-or-create, one of them through the conflict of its INSERT
C8_Witness ==
    \E p, q \in Procs :
        /\ p # q
        /\ AtStep(p, "session") /\ AtStep(q, "session")
        /\ inflight[p].data.providerId = G1
        /\ inflight[q].data.providerId = G1
        /\ ~inflight[p].conflict
        /\ inflight[q].conflict
        /\ inflight[p].uid = inflight[q].uid

(***************************************************************************)
(* Claims about the user objects the service returns (Spec).               *)
(***************************************************************************)
\* the fields of a users row that hold a credential
CredentialFields == {"password_hash", "passwordHash", "password"}

\* a returned user object, when there is one, has no credential field
NoCredential(user) == user # NULL => DOMAIN user \cap CredentialFields = {}

\* C11: in every state, for every session id, user id and request, the user
\* object that verifySession, getUserById, GET /api/auth/me, login and the
\* profile update return has no password_hash field.
C11_NoPasswordHashReturned ==
    /\ \A s \in 0..MaxSessions :
          /\ NoCredential(verifySession(users, sessions, s, now, TRUE))
          /\ NoCredential(MeOnRequestGet(users, sessions, s, now, TRUE).user)
          /\ NoCredential(ProfileOnRequestPutRespond(users, sessions, s, now, TRUE).user)
    /\ \A id \in 0..MaxUsers : NoCredential(getUserById(users, id))
    /\ \A body \in SessionLoginBodies :
          NoCredential(LoginOnRequestPost(users, sessions, nextSid, now, body, 0).resp.user)
    /\ last.op \in {"login", "me"} => NoCredential(last.resp.user)

\* C11's case: GET /api/auth/me has just returned the user of a live session
\* whose row holds a password hash, and a login would succeed
C11_Witness ==
    /\ last.op = "me"
    /\ last.resp.status = 200
    /\ users[last.resp.user.id].password_hash # NoHash
    /\ verifySession(users, sessions, last.sid, now, TRUE) # NULL
    /\ getUserById(users, last.resp.user.id) # NULL
    /\ \E body \in SessionLoginBodies :
          LoginOnRequestPost(users, sessions, nextSid, now, body, 0).resp.status = 200

(***************************************************************************)
(* Claims about session.js (SpecSessions).                                 *)
(***************************************************************************)
\* C12: a call of deleteAllUserSessions(userId) either returns normally, and
\* then no session of that user that existed at the call remains, or
\* surfaces an error to the caller; it removes no session of another user
\* and adds none.
C12_DeleteAllIsAllOrError ==
    [][ last'.op = "deleteAllUserSessions"
        => /\ last'.outcome \in {"ok", "error"}
           /\ last'.outcome = "ok"
                => \A r \in sessions : r.user_id = last'.uid => r \notin sessions'
           /\ \A r \in sessions : r.user_id # last'.uid => r \in sessions'
           /\ sessions' \subseteq sessions ]_vars

\* C12's case: deleteAllUserSessions has just returned normally, the user's
\* sessions are gone and a session of another user is still in the store
C12_Witness ==
    /\ last.op = "deleteAllUserSessions"
    /\ last.outcome = "ok"
    /\ nextSid = MaxSessions + 1
    /\ Cardinality(sessions) = MaxSessions - 1
    /\ \A r \in sessions : r.user_id # last.uid

(***************************************************************************)
(* Claims about password hashing (SpecHash).                               *)
(***************************************************************************)
\* C13: verifyPassword(p, hashPassword(p)) is true, and for p1 # p2
\* verifyPassword(p1, hashPassword(p2)) is false.
C13_VerifyIffSamePassword ==
    \A q \in HashPasswords, salt \in Salts :
        (last.op = "verifyPassword" /\ last.hash = hashPassword(q, salt))
        => (last.result = "true" <=> last.password = q)

\* the half of C13 that holds: a password verifies against its own hash
C13_OwnHashVerifies ==
    \A salt \in Salts :
        (last.op = "verifyPassword" /\ last.hash = hashPassword(last.password, salt))
        => last.result = "true"

\* C14: verifyPassword called with a malformed stored hash returns false and
\* does not throw.
C14_MalformedHashIsFalse ==
    (last.op = "verifyPassword" /\ last.hash \in MalformedHashes)
    => last.result = "false"

\* C15: every response of the Google and Kakao callbacks is a 302 redirect,
\* to the main page without an error or to the login page with one of the
\* handler's fixed messages; it is never a JSON error and never carries the
\* text a provider sent.
C15_CallbackAlwaysRedirects ==
    last.op = "oauth"
        => /\ last.resp.status = 302
           /\ \/ last.resp.location = "/main.html" /\ last.resp.error = ""
              \/ last.resp.location = "/index.html" /\ last.resp.error \in FixedErrors
           /\ last.resp.error # errorData

\* C15's case: the provider refused the token request of a Kakao callback,
\* and the callback answered
C15_Witness ==
    /\ last.op = "oauth"
    /\ last.req.provider = "kakao"
    /\ ~StateMismatch(last.req)
    /\ last.resp.error = "token"
    /\ last.resp.status = 302

\* C16: a callback that has passed the state check, the token and profile
\* requests and the reconciliation either fails to store its session and
\* answers with the error redirect, or creates exactly one session row, of
\* 30 days, for the reconciled user and answers with a redirect to the main
\* page whose cookies are the session cookie of that row and the cleared
\* oauth_state cookie; for Google as well as Kakao.
C16_SuccessfulCallbackOpensSession ==
    [][ \A p \in Procs :
          (AtStep(p, "session") /\ inflight'[p] = Idle)
              => \/ sessions' = sessions /\ last'.resp = CallbackCatch
                 \/ \E r \in sessions' \ sessions :
                       /\ sessions' = sessions \cup {r}
                       /\ r.user_id = inflight[p].uid
                       /\ LifetimeSeconds(r) = DaysOAuth * SecondsPerDay
                       /\ last'.resp.status = 302
                       /\ last'.resp.location = "/main.html"
                       /\ last'.resp.cookies =
                              <<SessionCookie(r.id, DaysOAuth * SecondsPerDay),
                                ClearStateCookie>> ]_vars

\* C16 for the Kakao callback alone
C16_KakaoCallbackOpensSession ==
    [][ \A p \in Procs :
          (AtStep(p, "session") /\ inflight'[p] = Idle
           /\ inflight[p].req.provider = "kakao")
              => \/ sessions' = sessions /\ last'.resp = CallbackCatch
                 \/ \E r \in sessions' \ sessions :
                       /\ sessions' = sessions \cup {r}
                       /\ r.user_id = inflight[p].uid
                       /\ LifetimeSeconds(r) = DaysOAuth * SecondsPerDay
                       /\ last'.resp = MainRedirect(r.id) ]_vars

\* the response tells the browser to drop the oauth_state cookie
ClearsStateCookie(resp) ==
    \E k \in DOMAIN resp.cookies : resp.cookies[k] = ClearStateCookie

\* C17: the state token is used once.  Every answer to a callback that
\* presented a state s, accepted or rejected, discards the oauth_state
\* cookie, and a callback that presents s as its state and as its cookie
\* after a callback for s has been answered does not pass the state check.
C17_StateIsSingleUse ==
    [][ /\ (last'.op = "oauth" /\ last'.req.state # "" /\ last' # last)
            => ClearsStateCookie(last'.resp)
        /\ \A p \in Procs :
              (/\ last.op = "oauth"
               /\ last.req.state # ""
               /\ inflight[p] = Idle
               /\ inflight'[p].op = "oauth")
                  => ~(/\ inflight'[p].req.state = last.req.state
                       /\ inflight'[p].req.oauth_state = last.req.state) ]_vars

\* the second half of C17 alone: no replay of an answered state passes the
\* state check
C17_ReplayIsRejected ==
    [][ \A p \in Procs :
          (/\ last.op = "oauth"
           /\ last.req.state # ""
           /\ last.req.state = last.req.oauth_state
           /\ last.resp.location = "/main.html"
           /\ inflight[p] = Idle
           /\ inflight'[p].op = "oauth")
              => ~(/\ inflight'[p].req.state = last.req.state
                   /\ inflight'[p].req.oauth_state = last.req.state) ]_vars

\* C18: a callback whose token answer lacks the access token or whose
\* profile lacks the subject identifier ends at the exchange, as a provider
\* error: no callback goes on to reconciliation, and from there to a user or
\* a session, with an absent provider id; for Google as well as Kakao.
C18_NoSubjectIdStopsCallback ==
    \A p \in Procs :
        (inflight[p].op = "oauth" /\ inflight[p].pc # "exchange")
            => inflight[p].data.providerId # Undefined

\* C18 for the Kakao callback alone
C18_KakaoNoSubjectIdStopsCallback ==
    \A p \in Procs :
        (inflight[p].op = "oauth" /\ inflight[p].pc # "exchange"
         /\ inflight[p].req.provider = "kakao")
            => inflight[p].data.providerId # Undefined

\* the e-mail the provider's profile carries for the identity of a callback
ProfileEmail(req) ==
    IF req.provider = "google" THEN GoogleUserInfo(req.code).email
    ELSE KakaoUserData(req.code).email

\* the text is the provider id followed by "@" and a domain
EmbedsProviderId(email, providerId) ==
    /\ Len(email) > Len(providerId) + 1
    /\ SubSeq(email, 1, Len(providerId)) = providerId
    /\ email[Len(providerId) + 1] = "@"

\* C19: the e-mail a callback hands to reconciliation is never absent, and
\* when the provider disclosed none it is a placeholder made of the provider
\* id, "@" and a domain, so that two provider users never share one; for
\* every provider callback.
C19_PlaceholderEmailEmbedsProviderId ==
    \A p \in Procs :
        AtStep(p, "lookup")
            => /\ inflight[p].data.email # Undefined
               /\ ProfileEmail(inflight[p].req) = Undefined
                      => EmbedsProviderId(inflight[p].data.email,
                                          inflight[p].data.providerId)

\* C19 for the Kakao callback alone
C19_KakaoPlaceholderEmail ==
    \A p \in Procs :
        (AtStep(p, "lookup") /\ inflight[p].req.provider = "kakao")
            => /\ inflight[p].data.email # Undefined
               /\ ProfileEmail(inflight[p].req) = Undefined
                      => EmbedsProviderId(inflight[p].data.email,
                                          inflight[p].data.providerId)

\* C20: updateUser(id, fields) called without an updatable field raises an
\* error and leaves the store as it was; called with one it either raises
\* an error and leaves the store as it was, or sets the supplied field and
\* updated_at of the row with that id and nothing else: every other column
\* of the row and every other row stay as they were.
C20_UpdateUserFrame ==
    [][ (last'.op = "updateUser" /\ last' # last)
            => LET id == last'.uid
                   name == last'.userData.name
               IN  /\ DOMAIN users' = DOMAIN users
                   /\ \A i \in DOMAIN users : i # id => users'[i] = users[i]
                   /\ name = Undefined
                          => last'.outcome = "error" /\ users' = users
                   /\ last'.outcome = "error" => users' = users
                   /\ (last'.outcome = "ok" /\ id \in DOMAIN users)
                          => /\ users'[id].name = Trim(name)
                             /\ users'[id].updated_at = datetime(now)
                             /\ \A c \in DOMAIN users[id] \ {"name", "updated_at"} :
                                   users'[id][c] = users[id][c] ]_vars

\* C20's case: a call with a name and a passwordHash has renamed the
\* password account at a later time than its creation
C20_Witness ==
    /\ last.op = "updateUser"
    /\ last.outcome = "ok"
    /\ last.uid = 1
    /\ last.userData = [name |-> NameAnn, passwordHash |-> hashPassword(PasswordB, <<255>>)]
    /\ last.at > 0
    /\ users[1].updated_at = datetime(last.at)
    /\ users[1].updated_at # users[1].created_at
    /\ users[2].updated_at # users[1].updated_at

(***************************************************************************)
(* Claims about validation, error answers and the session store.           *)
(***************************************************************************)
\* the request the last step answered with a validation error
Rejected400(l) ==
    l.op \in {"login", "signup", "profile"} /\ l.resp.status = 400

\* C21: a signup, login or profile update answered 400 leaves users and
\* sessions as they were; a signup or login answered 400 is answered 400
\* whichever store call would fail, that is before any store access.
C21_ValidationErrorLeavesStore ==
    [][ (Rejected400(last') /\ last' # last)
            => /\ users' = users
               /\ sessions' = sessions
               /\ nextSid' = nextSid
               /\ last'.op = "login"
                      => \A fail \in 0..3 :
                            LoginOnRequestPost(users, sessions, nextSid, now,
                                               last'.req, fail).resp.status = 400
               /\ last'.op = "signup"
                      => \A dbOk \in BOOLEAN :
                            SignupOnRequestPostCheck(users, last'.req, dbOk).resp.status
                                = 400 ]_vars

\* C21's case: a password change with a wrong current password has just
\* been answered 400, on a store that a signup and a rename have changed
C21_Witness ==
    /\ last.op = "profile"
    /\ last.resp.status = 400
    /\ last.ev.uid = 1
    /\ last.ev.req.currentPassword = PasswordB
    /\ Len(users) > Len(SeedUsers)
    /\ users[1].name = NameKim

\* C22: no endpoint returns the detail of a lower-level error: the body of
\* a 500 of a begin endpoint (Google, Naver, Kakao) has no details, and its
\* message does not depend on the error thrown.
C22_NoRawErrorDetail ==
    (last.op = "begin" /\ last.resp.status = 500)
        => /\ last.resp.details = ""
           /\ last.resp.error \in {"generic", "unconfigured"}

\* C22 for the Google begin endpoint alone
C22_GoogleNoRawErrorDetail ==
    (last.op = "begin" /\ last.provider = "google" /\ last.resp.status = 500)
        => /\ last.resp.details = ""
           /\ last.resp.error \in {"generic", "unconfigured"}

\* C23: verifySession is a pure read: whatever it returns, the users and
\* the sessions after the call are the users and the sessions before it; in
\* particular no session's expires_at is extended.
C23_VerifySessionIsPureRead ==
    [][ (last'.op = "verifySession" /\ last' # last)
            => /\ users' = users
               /\ sessions' = sessions
               /\ \A r \in sessions : \A q \in sessions' :
                      q.id = r.id => q.expires_at = r.expires_at ]_vars

\* C23's case: verifySession has returned the user of a session that is
\* alive, some time after the login that created it
C23_Witness ==
    /\ last.op = "verifySession"
    /\ last.result # NULL
    /\ last.at > 0
    /\ \E r \in sessions : r.id = last.sid /\ r.created_at = datetime(0)

\* C24: deleteSession is idempotent.  A logout is answered with success
\* and a session cookie of Max-Age 0 whether or not it carries a session
\* cookie and whether or not the id names a row; a logout whose id names no
\* row, or that carries none, leaves the sessions as they were; deleting an
\* id again after it was deleted changes nothing; the users are never
\* touched.
C24_DeleteSessionIdempotent ==
    [][ (last'.op = "logout" /\ last' # last)
            => /\ last'.resp.status = 200
               /\ last'.resp.cookies = <<SessionCookie(0, 0)>>
               /\ users' = users
               /\ last'.sid \notin SessionIds(sessions) => sessions' = sessions
               /\ sessions' = LogoutOnRequestPost(sessions, last'.sid, last'.dbOk).sessions
               /\ \A dbOk \in BOOLEAN :
                      deleteSession(deleteSession(sessions, last'.sid, TRUE),
                                    last'.sid, dbOk)
                          = deleteSession(sessions, last'.sid, TRUE) ]_vars

\* C24's case: a logout has just been answered whose session id was never
\* issued, while another session is in the store
C24_Witness ==
    /\ last.op = "logout"
    /\ last.sid = MaxSessions
    /\ nextSid = MaxSessions
    /\ last.resp.status = 200
    /\ sessions # {}

\* the account the body names exists, has a password credential, is active,
\* and the body's password verifies against its hash
LoginAccepts(U, body) ==
    /\ body.email # <<>>
    /\ body.password # ""
    /\ getUserByEmail(U, body.email) # 0
    /\ LET user == U[getUserByEmail(U, body.email)]
       IN  /\ user.password_hash # NoHash
           /\ user.status = "active"
           /\ verifyPassword(body.password, user.password_hash)

\* C25: a login with valid credentials whose session was created and whose
\* updateLastLogin write fails is answered 200 with the session cookie of
\* the created row; the users are as they were before it.
C25_LastLoginFailureDoesNotFailLogin ==
    [][ (/\ last'.op = "login"
         /\ last' # last
         /\ last'.fail = 3
         /\ LoginAccepts(users, last'.req))
            => /\ last'.resp.status = 200
               /\ \E r \in sessions' \ sessions :
                     /\ sessions' = sessions \cup {r}
                     /\ last'.resp.cookies =
                            <<SessionCookie(r.id, LifetimeSeconds(r))>>
               /\ users' = users ]_vars

\* C25's case: a keepLogin login of the password account has just been
\* answered 200 although its updateLastLogin failed
C25_Witness ==
    /\ last.op = "login"
    /\ last.fail = 3
    /\ last.req.keepLogin
    /\ last.resp.status = 200
    /\ users[1].last_login_at = NullText
    /\ sessions # {}

\* the answer of a begin endpoint: a 302 to the provider whose URL carries a
\* state no browser holds yet, and an oauth_state cookie of 600 seconds
\* that holds that same state
BeginRedirects(l, held) ==
    /\ l.resp.status = 302
    /\ l.resp.location = l.provider
    /\ l.resp.state = l.uuid
    /\ l.resp.state \notin held
    /\ l.resp.cookies = <<StateCookie(l.resp.state)>>
    /\ l.resp.cookies[1].MaxAge = 600

\* the states the browsers hold
HeldStates == {inflight[p].state : p \in {q \in Procs : inflight[q].op = "authorize"}}

\* C26: every begin endpoint (Google, Naver, Kakao) whose client id is
\* configured answers with a 302 to the provider whose URL embeds a freshly
\* generated state, and sets an oauth_state cookie of Max-Age 600 holding
\* that same state.
C26_BeginSetsStateCookie ==
    [][ (last'.op = "begin" /\ last' # last /\ last'.configured /\ last'.thrown = "")
            => BeginRedirects(last', HeldStates) ]_vars

\* C26 for the Naver and Kakao begin endpoints alone
C26_NaverKakaoBeginSetsStateCookie ==
    [][ (/\ last'.op = "begin" /\ last' # last /\ last'.configured
         /\ last'.thrown = "" /\ last'.provider # "google")
            => BeginRedirects(last', HeldStates) ]_vars

\* C27: verifyPassword compares the derived digest with the stored digest
\* in constant time: the number of code units the comparison examines is
\* the same for every two digests of the same lengths, however long their
\* matching prefix.
C27_ConstantTimeCompare ==
    last.op = "compare"
        => \A x \in Digests, y \in Digests :
              (Len(x) = Len(last.computedHash) /\ Len(y) = Len(last.hashHex))
                  => StrictEqualsSteps(x, y, last.engine) = last.steps

\* C28: the expiry test of verifySession agrees with chronological order:
\* at every instant at or after the instant the expires_at written by
\* createSession denotes, the session's row fails the test
\* expires_at > datetime("now"), also on the calendar day of the expiry; and
\* before that instant it passes.
C28_ExpiryTestIsChronological ==
    \A r \in sessions :
        (SelectLiveSession(sessions, r.id, now) = {}) <=> (now >= InstantOf(r.expires_at))

\* the half of C28 that holds: once the calendar day of the expiry is over,
\* the row fails the test, and before the expiry instant it passes
C28_ExpiredAfterExpiryDay ==
    \A r \in sessions :
        /\ now < InstantOf(r.expires_at) => SelectLiveSession(sessions, r.id, now) # {}
        /\ datetime(now)[1] > r.expires_at[1] => SelectLiveSession(sessions, r.id, now) = {}

\* C29: a password login creates a session row or sets a session cookie
\* only if the account exists, has a password credential, is active and the
\* password verifies against the stored hash; every other login is answered
\* 400, 401, 403 or 500, creates no session row and sets no cookie; no
\* login removes a session or creates more than one.
C29_SessionOnlyForVerifiedLogin ==
    [][ (last'.op = "login" /\ last' # last)
            => /\ (sessions' # sessions \/ last'.resp.cookies # NoCookies)
                      => LoginAccepts(users, last'.req)
               /\ ~LoginAccepts(users, last'.req)
                      => /\ last'.resp.status \in {400, 401, 403, 500}
                         /\ sessions' = sessions
                         /\ last'.resp.cookies = NoCookies
               /\ sessions \subseteq sessions'
               /\ Cardinality(sessions' \ sessions) <= 1
               /\ last'.resp.status # 200
                      => sessions' = sessions /\ last'.resp.cookies = NoCookies ]_vars

\* C29's case: a login with the right password of a suspended account has
\* just been answered 403, after an earlier login of the account succeeded
C29_Witness ==
    /\ last.op = "login"
    /\ last.req.email = EmailA
    /\ last.req.password = PasswordA
    /\ last.fail = 0
    /\ last.resp.status = 403
    /\ users[1].status = "suspended"
    /\ Cardinality(sessions) = 1

\* C30: after any sequence of signups, concurrent ones included, every
\* stored e-mail equals its own trimmed lower-cased form and no two rows
\* have the same e-mail.
C30_EmailsNormalizedAndUnique ==
    /\ \A i \in DOMAIN users : users[i].email = ToLowerCase(Trim(users[i].email))
    /\ \A i \in DOMAIN users : \A k \in DOMAIN users :
          users[i].email = users[k].email => i = k

\* C30's case: two signups for one address passed the existence check
\* together; one has created its row and the other has just been refused by
\* the store's UNIQUE constraint, beside the row of another address
C30_Witness ==
    /\ last.op = "signup"
    /\ last.dup
    /\ last.resp.status = 500
    /\ Len(users) = 2
    /\ \E i \in DOMAIN users : users[i].email = EmailA
    /\ \E i \in DOMAIN users : users[i].email = EmailB

(***************************************************************************)
(* Claims about the password change of the profile update (SpecProfile).   *)
(***************************************************************************)
\* the step is the first part of a profile request of an authenticated
\* caller whose body carries newPassword
PasswordRequestStep ==
    /\ inflight[1] = Idle
    /\ last' # last
    /\ last'.op \in {"profile", "profile-update"}
    /\ last'.ev.uid # 0
    /\ last'.ev.req.newPassword # ""

\* the request's currentPassword is supplied and verifies against hash
CurrentPasswordVerifies(req, hash) ==
    req.currentPassword # "" /\ verifyPassword(req.currentPassword, hash)

\* the body is otherwise acceptable: an absent or long enough name, a valid
\* newPassword and an equal confirmation
AcceptableNewPassword(req) ==
    /\ req.name # Undefined => Len(Trim(req.name)) >= MinNameLen
    /\ req.newPassword = req.newPasswordConfirm
    /\ validatePassword(req.newPassword)

\* the half of C31 about users with a password credential
PasswordUserNeedsCurrentPassword ==
    LET hash == users[last'.ev.uid].password_hash
    IN  (hash # NoHash /\ ~CurrentPasswordVerifies(last'.ev.req, hash))
        => /\ last'.op = "profile"
           /\ last'.resp.status # 200
           /\ users' = users

\* the half of C31 about users without one: the store working, the password
\* of the request becomes the user's credential
SocialUserSetsPassword ==
    LET uid == last'.ev.uid
    IN  (/\ users[uid].password_hash = NoHash
         /\ last'.ev.req.currentPassword = ""
         /\ AcceptableNewPassword(last'.ev.req)
         /\ last'.ev.fail = 0)
        => /\ last'.op = "profile-update"
           /\ users'[uid].password_hash # NoHash
           /\ verifyPassword(last'.ev.req.newPassword, users'[uid].password_hash)

\* C31: for a user who has a password credential, a profile update carrying
\* newPassword is rejected and changes nothing unless currentPassword is
\* supplied and verifies against the stored hash; a user without a password
\* credential sets a password without supplying currentPassword.
C31_PasswordChangeNeedsCurrentPassword ==
    [][ PasswordRequestStep
            => PasswordUserNeedsCurrentPassword /\ SocialUserSetsPassword ]_vars

\* the half of C31 that holds: without a verifying currentPassword the
\* request of a user with a password credential is rejected and changes
\* nothing
C31_PasswordUserNeedsCurrentPassword ==
    [][ PasswordRequestStep => PasswordUserNeedsCurrentPassword ]_vars

(***************************************************************************)
(* Claims about the session a request creates (SpecOAuth, SpecLogin).      *)
(***************************************************************************)
\* the response is a success that carries sid in its session cookie
AnswersWithSession(resp, sid) ==
    /\ \/ resp.status = 200
       \/ resp.status = 302 /\ resp.location = "/main.html"
    /\ \E k \in DOMAIN resp.cookies :
          /\ resp.cookies[k].name = "session"
          /\ resp.cookies[k].value = sid

\* the step answers a login or an OAuth callback and has stored session rows
CreatesSession ==
    /\ last'.op \in {"login", "oauth"}
    /\ sessions' # sessions

\* C32: no orphan sessions: whenever createSession succeeded inside a login
\* or an OAuth callback request, the response of that request is a success
\* that carries the id of the created row in its session cookie.
C32_NoOrphanSession ==
    [][ CreatesSession
            => \A r \in sessions' \ sessions : AnswersWithSession(last'.resp, r.id) ]_vars

\* C32 for the Kakao callback alone
C32_KakaoNoOrphanSession ==
    [][ (CreatesSession /\ last'.req.provider = "kakao")
            => \A r \in sessions' \ sessions : AnswersWithSession(last'.resp, r.id) ]_vars

\* C32 for the password login (SpecLogin)
C32_LoginNoOrphanSession ==
    [][ (CreatesSession /\ last'.op = "login")
            => \A r \in sessions' \ sessions : AnswersWithSession(last'.resp, r.id) ]_vars

(***************************************************************************)
(* Claims about the answer of the profile update (SpecProfile).            *)
(***************************************************************************)
\* the columns of a users row that a profile update writes
ProfileColumns(row) ==
    [name |-> row.name, password_hash |-> row.password_hash,
     updated_at |-> row.updated_at]

\* C33: the profile update is all-or-nothing for the caller: whenever it
\* answers with a non-success status, the user's row is as it was when the
\* request arrived, also when the session is deleted or the user is
\* deactivated by another request between the update and the session
\* re-verification.
C33_ProfileAllOrNothing ==
    (last.op = "profile" /\ last.resp.status # 200 /\ last.ev.uid # 0)
    => ProfileColumns(users[last.ev.uid]) = ProfileColumns(last.ev.row)

\* the half of C33 that holds: a request answered before its updateUser has
\* returned (401, 400, or 500 with the store failing up to there) leaves the
\* users as they were
C33_RejectedBeforeUpdateLeavesRow ==
    [][ (inflight[1] = Idle /\ last' # last /\ last'.op = "profile")
            => users' = users ]_vars

(***************************************************************************)
(* Claims about the permanence of an invalid session (Spec).               *)
(***************************************************************************)
\* session id sid has been issued and its row is gone or fails the expiry
\* test of verifySession at time t
ExpiredOrDeleted(S, sid, issued, t) ==
    sid < issued /\ SelectLiveSession(S, sid, t) = {}

\* C34: invalidity by expiry or deletion is permanent: no step extends a
\* session's expires_at or inserts a row under an id that was issued before,
\* so a session that verifySession finds expired or deleted is found so in
\* every later state, whatever the store answers.
C34_InvalidityIsPermanent ==
    [][ /\ \A r \in sessions : \A q \in sessions' :
              q.id = r.id => q.expires_at = r.expires_at
        /\ \A q \in sessions' \ sessions : q.id >= nextSid
        /\ \A sid \in 1..MaxSessions :
              ExpiredOrDeleted(sessions, sid, nextSid, now)
                  => /\ ExpiredOrDeleted(sessions', sid, nextSid', now')
                     /\ \A dbOk \in BOOLEAN :
                           verifySession(users', sessions', sid, now', dbOk) = NULL ]_vars

\* C34's case: the first session was logged out, the second has been left to
\* expire, its row still in the store, and GET /api/auth/me has just answered
\* 401 to it
C34_Witness ==
    /\ last.op = "me"
    /\ last.sid = 2
    /\ last.dbOk
    /\ last.resp.status = 401
    /\ users[1].status = "active"
    /\ 1 \notin SessionIds(sessions)
    /\ 2 \in SessionIds(sessions)
    /\ nextSid = 3

(***************************************************************************)
(* Claims about store failures during verifySession (SpecProfile, Spec).   *)
(***************************************************************************)
\* verifySession returns absent for every session id when the store fails
VerifySessionAbsentOnFailure ==
    \A sid \in 0..(nextSid - 1) : verifySession(users, sessions, sid, now, FALSE) = NULL

\* the response is a 401 that names no user
Answers401(resp) == resp.status = 401 /\ resp.user = NULL

\* C35: verifySession fails closed: when the store fails during a
\* verification it returns absent, so GET /api/auth/me and the profile update
\* answer 401, without a user, to a request during whose verification the
\* store failed.
C35_VerifySessionFailsClosed ==
    /\ VerifySessionAbsentOnFailure
    /\ (last.op = "me" /\ ~last.dbOk) => Answers401(last.resp)
    /\ (last.op = "profile" /\ (last.ev.fail = 1 \/ last.reverify = "failed"))
           => Answers401(last.resp)

\* the half of C35 that holds for the profile update: a store failure in the
\* verification that authenticates the request is answered 401, and a store
\* failure in the re-verification is never answered with success
C35_ProfileNeverAuthenticatesOnFailure ==
    /\ VerifySessionAbsentOnFailure
    /\ (last.op = "profile" /\ last.ev.fail = 1)
           => Answers401(last.resp) /\ last.ev.uid = 0
    /\ (last.op = "profile" /\ last.reverify = "failed")
           => last.resp.status = 500 /\ last.resp.user = NULL

\* C35 for GET /api/auth/me (Spec)
C35_MeFailsClosed ==
    /\ VerifySessionAbsentOnFailure
    /\ (last.op = "me" /\ ~last.dbOk) => Answers401(last.resp)

(***************************************************************************)
(* Claims about the frame of the logout (Spec).                            *)
(***************************************************************************)
\* C36: deleteSession(s) and the logout that calls it remove at most the
\* session row with id s: every other session, other sessions of the same
\* user included, is left unchanged and verifies as it did before.
C36_LogoutRemovesOnlyItsSession ==
    [][ (last'.op = "logout" /\ last' # last)
            => /\ sessions' \subseteq sessions
               /\ \A r \in sessions \ sessions' : r.id = last'.sid
               /\ \A r \in sessions :
                     r.id # last'.sid
                         => /\ r \in sessions'
                            /\ verifySession(users', sessions', r.id, now', TRUE)
                                   = verifySession(users, sessions, r.id, now, TRUE) ]_vars

\* C36's case: the user logged in twice and has just logged the first
\* session out; the row of the second is in the store and verifies
C36_Witness ==
    /\ last.op = "logout"
    /\ last.sid = 1
    /\ last.dbOk
    /\ SessionIds(sessions) = {2}
    /\ \A r \in sessions : r.user_id = 1
    /\ verifySession(users, sessions, 2, now, TRUE) # NULL

(***************************************************************************)
(* Claims about the binding of the state token (SpecState).                *)
(***************************************************************************)
\* the step is a callback passing its state check
StateAccepted ==
    /\ inflight[1] = Idle
    /\ inflight'[1] # Idle

\* C37: an OAuth state token is bound to the login attempt that issued it:
\* a callback passes its state check only with the state of an attempt that
\* was begun at the callback's own provider, and only with the state of the
\* attempt whose cookie the browser still holds.
C37_StateBoundToAttempt ==
    [][ StateAccepted
            => /\ \A a \in inflight[2].attempts :
                      a.state = inflight'[1].req.state
                          => a.provider = inflight'[1].req.provider
               /\ inflight'[1].req.state = inflight[2].oauth_state ]_vars

\* the half of C37 that holds: of the attempts begun in one browser, only
\* the state of the one whose cookie is still held passes a state check
C37_AcceptedStateIsHeld ==
    [][ StateAccepted
            => /\ inflight'[1].req.state = inflight[2].oauth_state
               /\ \E a \in inflight[2].attempts : a.state = inflight[2].oauth_state ]_vars

=============================================================================
